---- MODULE Spec2Model ----
(***************************************************************************)
(* A model of fasttrips/Assignment.py: the capacity loop of simulate()     *)
(* (put_passengers_on_vehicles, flag_bump_overcap_passengers, the bump     *)
(* wait registry) and the parallel pathfinding pass of generate_pathsets() *)
(* with its worker processes.                                              *)
(*                                                                         *)
(* Data frames are modelled as sequences of records (rows in row order).   *)
(* Only the trip links of pathset_links_df are rows of the model: access,  *)
(* egress and transfer links have a null trip id, never match any of the   *)
(* joins against the vehicle table and are never boards or alights.        *)
(***************************************************************************)
EXTENDS Integers, Sequences, FiniteSets, TLC

(***************************************************************************)
(* Bounds                                                                  *)
(***************************************************************************)
\* number of requests (trip list entries) in the capacity-loop model
NumPax == 3
\* pathfinding A-times are drawn from 1..MaxTime
MaxTime == 2
\* number of requests in the model of the persistent bump wait registry
NumPaxWait == 2
\* number of requests of the trip list in the model of a pathfinding pass
NumRequests == 2
\* NUMBER_OF_PROCESSES is drawn from 0..MaxProcesses
MaxProcesses == 2
\* the pathfinding pass is one of the outer iterations 1..MaxIteration
MaxIteration == 2
\* number of requests of the trip list in the model of the outer iterations
NumTripList == 2
\* number of requests in the model of the vehicle loads
NumPaxLoad == 2
\* ITERATION_FLAG is drawn from 1..MaxIterationFlag
MaxIterationFlag == 3

(***************************************************************************)
(* Program constants                                                       *)
(***************************************************************************)
CHOSEN_NOT_CHOSEN_YET == -1
CHOSEN_REJECTED == -2

(***************************************************************************)
(* The schedule (veh_trips_df without the load columns): trip 1 serves     *)
(* stops 10, 20, 30 and trip 2 serves stops 20, 30.  Rows of a trip are in *)
(* stop sequence order.                                                    *)
(***************************************************************************)
Trips == {1, 2}
NumStops(t) == IF t = 1 THEN 3 ELSE 2
StopId(t, s) == IF t = 1 THEN 10 * s ELSE 10 * (s + 1)
\* Trip.STOPTIMES_COLUMN_ARRIVAL_TIME of the vehicle at (trip, sequence)
ArrivalTime(t, s) == IF t = 1 THEN 2 * s ELSE 2 * s + 1
\* Trip.VEHICLES_COLUMN_TOTAL_CAPACITY
Capacity(t) == 1
TripStops == {ts \in Trips \X (1..3) : ts[2] <= NumStops(ts[1])}

VARIABLES
    pathset_links_df,         \* trip links of all pathsets, in row order
    veh_trips_df,             \* [trip][seq] -> boards, alights, onboard, overcap
    bump_wait_df,             \* Assignment.bump_wait_df: [isNone, rows]
    bump_iter,                \* bump pass index of the capacity loop
    chosen_paths_bumped,      \* result of the last flag_bump_overcap_passengers
    new_bump_wait,            \* new_bump_wait of the last bump pass (rows)
    pc,                       \* position in simulate()
    CAPACITY_CONSTRAINT,
    BUMP_ONE_AT_A_TIME,
    has_capacity_configured,
    \* generate_pathsets() and its worker processes
    iteration,                \* the outer iteration of the pathfinding pass
    NUMBER_OF_PROCESSES,
    est_paths_to_find,        \* len(pathfind_trip_list_df); requests 1..est_paths_to_find
    num_processes,
    todo_queue,               \* pathsets (trip_list_id_num) and 'DONE' tokens
    done_queue,               \* results the workers have put, unread by the driver
    process_dict,             \* [worker -> alive, done, working_on (0: no such key)]
    done_procs,
    pathdict,                 \* [request -> pathdict of its pathset]
    num_paths_found_now,
    next_path,                \* the next row of the loop over pathfind_trip_list_df
    crash_report,             \* [worker -> the "appears to have crashed" line logged]
    gp_pc,                    \* position of the driver in generate_pathsets()
    worker_pc,                \* [worker -> position in find_trip_based_paths_process_worker]
    worker_todo,              \* [worker -> the pathset it is working on]
    engine_bump_wait,         \* [engine -> bump wait rows the C++ extension holds]
    completed_put,            \* [request -> the COMPLETED result a worker has put]
    \* assign_paths(): the outer iterations
    ITERATION_FLAG,
    SIMULATION,
    PATHFINDING_READ_FILE,    \* PATHFINDING_TYPE == PATHFINDING_TYPE_READ_FILE
    PATHFINDING_EVERYONE,     \* the class attribute Assignment.PATHFINDING_EVERYONE
    pathset_paths_df,         \* the retained pathsets: [isNone, rows], a row per request
    new_pathset_paths_df,     \* the pathsets of the last pathfinding pass
    pathfind_trip_list_df,    \* the requests of the last pathfinding pass
    simulation_iteration,
    num_chosen,
    num_paths_found,
    num_passengers_arrived,
    ap_pc,                    \* position in assign_paths()
    \* the MSA columns of veh_trips_df
    veh_msa,                  \* [trip][seq] -> msa_boards, msa_alights, as fractions
    veh_msa_prev,             \* veh_msa as the outer iteration found it
    \* read_configuration()
    config,                   \* the options of the configuration files
    python_debug,             \* __debug__ of the interpreter
    rc_pc,                    \* position in read_configuration()
    \* write_vehicle_trips()
    veh_trips_csv,            \* veh_trips.csv: the blocks written, in file order
    veh_trips_columns,        \* the optional columns that veh_trips_df has
    \* find_trip_based_pathset()
    ret_ints,                 \* the link rows the C++ extension returns, in row order
    path_costs,               \* the path-cost matrix it returns, a row per path
    ftp_pc                    \* position in find_trip_based_pathset()

simvars == <<pathset_links_df, veh_trips_df, bump_wait_df, bump_iter,
             chosen_paths_bumped, new_bump_wait, pc, CAPACITY_CONSTRAINT, BUMP_ONE_AT_A_TIME,
             has_capacity_configured>>

poolvars == <<iteration, NUMBER_OF_PROCESSES, est_paths_to_find, num_processes, todo_queue,
              done_queue, process_dict, done_procs, pathdict, num_paths_found_now, next_path,
              crash_report, gp_pc, worker_pc, worker_todo, engine_bump_wait, completed_put>>

outervars == <<ITERATION_FLAG, SIMULATION, PATHFINDING_READ_FILE, PATHFINDING_EVERYONE,
               pathset_paths_df, new_pathset_paths_df, pathfind_trip_list_df,
               simulation_iteration, num_chosen,
               num_paths_found, num_passengers_arrived, ap_pc>>

msavars == <<veh_msa, veh_msa_prev>>

cfgvars == <<config, python_debug, rc_pc>>

filevars == <<veh_trips_csv, veh_trips_columns>>

extvars == <<ret_ints, path_costs, ftp_pc>>

vars == <<simvars, poolvars, outervars, msavars, cfgvars, filevars, extvars>>

(***************************************************************************)
(* Helpers                                                                 *)
(***************************************************************************)
Range(f) == {f[i] : i \in DOMAIN f}

Min(S) == CHOOSE x \in S : \A y \in S : x <= y

RECURSIVE SumTo(_, _)
\* f[1] + ... + f[n]
SumTo(f, n) == IF n = 0 THEN 0 ELSE SumTo(f, n - 1) + f[n]

(***************************************************************************)
(* Passenger.get_chosen_links: the links of chosen paths (chosen >= 0)     *)
(***************************************************************************)
IsChosen(l) == l.chosen >= 0

\* the path a link belongs to: (trip_list_id_num, pathnum); person_id is a
\* function of trip_list_id_num
PathOf(l) == <<l.trip_list_id_num, l.pathnum>>

(***************************************************************************)
(* put_passengers_on_vehicles                                              *)
(***************************************************************************)
\* a link that counts as a board/alight: chosen and unbumped (bump_iter == -1)
Riding(l) == IsChosen(l) /\ l.bump_iter = -1

\* passenger_trips_boards: count of riding links per (trip, A_seq)
Boards(links, t, s) ==
    Cardinality({i \in DOMAIN links :
        Riding(links[i]) /\ links[i].trip_id_num = t /\ links[i].A_seq = s})

\* a variant that counts the alights of bumped passengers too
Alights_Bumped(links, t, s) ==
    Cardinality({i \in DOMAIN links :
        IsChosen(links[i]) /\ links[i].trip_id_num = t /\ links[i].B_seq = s})

\* passenger_trips_alights: count of riding links per (trip, B_seq)
Alights(links, t, s) ==
    Cardinality({i \in DOMAIN links :
        Riding(links[i]) /\ links[i].trip_id_num = t /\ links[i].B_seq = s})

\* a variant without the cumulative sum
Onboard_NotCumulative(links, t, s) == Boards(links, t, s) - Alights(links, t, s)

\* onboard is the cumulative sum of boards - alights within the trip
Onboard(links, t, s) ==
    SumTo([k \in 1..NumStops(t) |-> Boards(links, t, k) - Alights(links, t, k)], s)

RECURSIVE GCD(_, _)
GCD(a, b) == IF b = 0 THEN a ELSE GCD(b, a % b)

\* the fraction n/d in lowest terms
Rat(n, d) == LET g == GCD(n, d) IN [num |-> n \div g, den |-> d \div g]

\* msa_lambda*raw + (1.0 - msa_lambda)*prev with msa_lambda = 1.0/iteration
MsaAverage(iter, raw, prev) ==
    Rat(raw * prev.den + (iter - 1) * prev.num, iter * prev.den)

\* the MSA boards and alights after a load with bump_iter == 0
MsaVehicles(iter, veh, old) ==
    [t \in Trips |-> [s \in 1..NumStops(t) |->
        [boards  |-> MsaAverage(iter, veh[t][s].boards, old[t][s].boards),
         alights |-> MsaAverage(iter, veh[t][s].alights, old[t][s].alights)]]]

\* a variant that averages at every load
MsaUpdates_EveryLoad(bump_iter_arg) == TRUE

\* "if bump_iter==0": the load that averages the boards and alights
MsaUpdates(bump_iter_arg) == bump_iter_arg = 0

\* the MSA columns of the vehicles before anyone was loaded
ZeroMsa ==
    [t \in Trips |-> [s \in 1..NumStops(t) |->
        [boards |-> Rat(0, 1), alights |-> Rat(0, 1)]]]

\* no load has been averaged yet
MsaIdle == veh_msa = ZeroMsa /\ veh_msa_prev = ZeroMsa

\* read_configuration has returned on the default options
CfgIdle == config = <<>> /\ python_debug = TRUE /\ rc_pc = "returned"

(***************************************************************************)
(* write_vehicle_trips: veh_trips.csv                                      *)
(***************************************************************************)
\* the columns write_vehicle_trips lists (the load and MSA columns are
\* stood for by boards and msa_boards)
VehTripsColumns ==
    <<"iteration", "direction_id", "service_id", "route_id", "trip_id", "stop_sequence",
      "stop_id", "arrival_time", "departure_time", "capacity", "boards", "msa_boards">>

\* these may not be in there since they're optional
OptionalColumns == {"direction_id", "capacity"}

\* the columns written for a frame that has the optional columns cols
WrittenColumns(cols) ==
    SelectSeq(VehTripsColumns, LAMBDA c : c \in OptionalColumns => c \in cols)

\* the rows written by one call: the load profile with its iteration number
VehTripsBlock(iter, cols) == [iteration |-> iter, columns |-> WrittenColumns(cols)]

\* Util.write_dataframe: the file is appended to, or written anew
write_dataframe(file, block, append) ==
    IF append THEN Append(file, block) ELSE <<block>>

\* a variant that appends from iteration 2 on, as the chosen paths files do
write_vehicle_trips_AppendAfterFirst(file, iter, cols) ==
    write_dataframe(file, VehTripsBlock(iter, cols), iter > 1)

\* write_vehicle_trips(output_dir, iteration, veh_trips_df)
write_vehicle_trips(file, iter, cols) ==
    write_dataframe(file, VehTripsBlock(iter, cols), iter > 0)

\* write_vehicle_trips is not followed
FileIdle == veh_trips_csv = <<>> /\ veh_trips_columns = OptionalColumns

(***************************************************************************)
(* find_trip_based_pathset: the pathdict built from what the C++ extension *)
(* returns                                                                 *)
(***************************************************************************)
\* paths of a pathset and link rows returned for it
MaxPaths == 2
MaxRows == 3

\* the mode codes of the extension
CodeAccess == -100
CodeEgress == -101
CodeTransfer == -102
CodeTransit == -103
\* a supply mode number, as the extension returns it for a trip link
SupplyModeNum == 7

\* PathSet.STATE_MODE_ACCESS, STATE_MODE_EGRESS, STATE_MODE_TRANSFER and
\* Passenger.MODE_GENERIC_TRANSIT_NUM
STATE_MODE_ACCESS == "Access"
STATE_MODE_EGRESS == "Egress"
STATE_MODE_TRANSFER == "Transfer"
MODE_GENERIC_TRANSIT_NUM == "generic transit"

\* a variant that takes -101 for a transfer and -102 for egress
ModeOf_EgressTransferSwapped(mode) ==
    IF mode = CodeAccess THEN STATE_MODE_ACCESS
    ELSE IF mode = CodeEgress THEN STATE_MODE_TRANSFER
    ELSE IF mode = CodeTransfer THEN STATE_MODE_EGRESS
    ELSE IF mode = CodeTransit THEN MODE_GENERIC_TRANSIT_NUM
    ELSE mode

\* the mode of a state: the four codes are replaced, any other is kept
ModeOf(mode) ==
    IF mode = CodeAccess THEN STATE_MODE_ACCESS
    ELSE IF mode = CodeEgress THEN STATE_MODE_EGRESS
    ELSE IF mode = CodeTransfer THEN STATE_MODE_TRANSFER
    ELSE IF mode = CodeTransit THEN MODE_GENERIC_TRANSIT_NUM
    ELSE mode

\* the (stop_id, stop_state) appended for a row
StateOf(row) == [stop_id |-> row.stop_id, mode |-> ModeOf(row.mode)]

RECURSIVE RowsTaken(_, _, _)
\* the turns of "while (row_num < ret_ints.shape[0]) and (ret_ints[row_num, 0]
\* == path_num)" from row_num on (row_num counts from 0)
RowsTaken(ints, row_num, path_num) ==
    IF row_num < Len(ints) /\ ints[row_num + 1].path_num = path_num
    THEN 1 + RowsTaken(ints, row_num + 1, path_num)
    ELSE 0

RECURSIVE RowNumAt(_, _)
\* row_num when the loop over the paths comes to path_num
RowNumAt(ints, path_num) ==
    IF path_num = 0 THEN 0
    ELSE RowNumAt(ints, path_num - 1)
            + RowsTaken(ints, RowNumAt(ints, path_num - 1), path_num - 1)

\* pathdict: for every row of path_costs the cost, the probability and the
\* states appended by the while loop
BuildPathdict(costs, ints) ==
    [path_num \in 0..(Len(costs) - 1) |->
        [cost        |-> costs[path_num + 1][1],
         probability |-> costs[path_num + 1][2],
         states      |-> [k \in 1..RowsTaken(ints, RowNumAt(ints, path_num), path_num) |->
                            StateOf(ints[RowNumAt(ints, path_num) + k])]]]

\* find_trip_based_pathset is not followed
ExtIdle == ret_ints = <<>> /\ path_costs = <<>> /\ ftp_pc = "idle"

LoadedVehicles(links, veh) ==
    [t \in Trips |-> [s \in 1..NumStops(t) |->
        [boards  |-> Boards(links, t, s),
         alights |-> Alights(links, t, s),
         onboard |-> Onboard(links, t, s),
         overcap |-> veh[t][s].overcap]]]

(***************************************************************************)
(* flag_bump_overcap_passengers                                            *)
(***************************************************************************)
\* 1) overcap = onboard - capacity on every vehicle row
WithOvercap(veh) ==
    [t \in Trips |-> [s \in 1..NumStops(t) |->
        [veh[t][s] EXCEPT !.overcap = veh[t][s].onboard - Capacity(t)]]]

\* the trip/stops at capacity
atcap_df(veh) == {ts \in TripStops : veh[ts[1]][ts[2]].overcap = 0}

\* the trip/stops over capacity
overcap_df(veh) == {ts \in TripStops : veh[ts[1]][ts[2]].overcap > 0}

\* chosen links boarding at an at-capacity stop are marked bumpstop_boarded
MarkAtCapBoarded(links, veh) ==
    [i \in DOMAIN links |->
        IF <<links[i].trip_id_num, links[i].A_seq>> \in atcap_df(veh) /\ IsChosen(links[i])
        THEN [links[i] EXCEPT !.bumpstop_boarded = 1]
        ELSE links[i]]

\* 2) for each trip, the first over-capacity stop (groupby trip, 'first')
FirstOvercapStops(veh) ==
    {ts \in overcap_df(veh) :
        \A s \in 1..NumStops(ts[1]) : <<ts[1], s>> \in overcap_df(veh) => ts[2] <= s}

\* a variant that leaves the loop only when no vehicle is over capacity
ReturnsBeforeBumping_Unconstrained(veh, capacity_constraint) == overcap_df(veh) = {}

\* flag_bump_overcap_passengers returns 0 without bumping: no vehicle is over
\* capacity, or CAPACITY_CONSTRAINT is off
ReturnsBeforeBumping(veh, capacity_constraint) ==
    overcap_df(veh) = {} \/ ~capacity_constraint

\* a variant that takes any of the first over-capacity stops when bumping
\* one at a time
BumpStopChoices_AnyFirst(veh, one_at_a_time) ==
    IF one_at_a_time
    THEN {{ts} : ts \in FirstOvercapStops(veh)}
    ELSE {FirstOvercapStops(veh)}

\* 3) the possible values of bump_stops_df: with BUMP_ONE_AT_A_TIME the one
\* row that sorts first by vehicle arrival time (either of two rows with the
\* same arrival time may come first), else one row per trip
BumpStopChoices(veh, one_at_a_time) ==
    LET first == FirstOvercapStops(veh)
    IN  IF one_at_a_time
        THEN {{ts} : ts \in {x \in first :
                 \A y \in first : ArrivalTime(x[1], x[2]) <= ArrivalTime(y[1], y[2])}}
        ELSE {first}

\* bump candidates: boarding at a bump stop, chosen path, unbumped
bumpstop_boards(links, bump_stops) ==
    {i \in DOMAIN links :
        /\ <<links[i].trip_id_num, links[i].A_seq>> \in bump_stops
        /\ links[i].chosen >= 0
        /\ links[i].bump_iter < 0}

\* unchosen paths boarding at a bump stop, unbumped
unchosen_atcap_boards(links, bump_stops) ==
    {i \in DOMAIN links :
        /\ <<links[i].trip_id_num, links[i].A_seq>> \in bump_stops
        /\ links[i].chosen < 0
        /\ links[i].bump_iter < 0}

\* a variant that sorts without the request id as the last key
SortsBefore_NoRequestId(a, b) ==
    \/ a.new_A_time < b.new_A_time
    \/ /\ a.new_A_time = b.new_A_time
       /\ \/ a.trip_id_num < b.trip_id_num
          \/ /\ a.trip_id_num = b.trip_id_num
             /\ \/ a.A_seq < b.A_seq
                \/ /\ a.A_seq = b.A_seq
                   /\ a.pf_A_time > b.pf_A_time

\* sort_values(by=[new_A_time, trip_id_num, A_seq, pf_A_time, trip_list_id_num],
\*             ascending=[True, True, True, False, False]): a sorts before b
SortsBefore(a, b) ==
    \/ a.new_A_time < b.new_A_time
    \/ /\ a.new_A_time = b.new_A_time
       /\ \/ a.trip_id_num < b.trip_id_num
          \/ /\ a.trip_id_num = b.trip_id_num
             /\ \/ a.A_seq < b.A_seq
                \/ /\ a.A_seq = b.A_seq
                   /\ \/ a.pf_A_time > b.pf_A_time
                      \/ /\ a.pf_A_time = b.pf_A_time
                         /\ a.trip_list_id_num > b.trip_list_id_num

\* row i comes before row j in the sorted frame (rows with equal keys keep
\* their row order)
RowBefore(links, i, j) ==
    \/ SortsBefore(links[i], links[j])
    \/ ~SortsBefore(links[j], links[i]) /\ i < j

\* groupby(trip_id_num, A_seq, A_id_num)
SameBumpStop(a, b) == a.trip_id_num = b.trip_id_num /\ a.A_seq = b.A_seq

\* cumcount() of row i within its (trip, A_seq, A_id) group of the sorted frame
bump_index(links, cands, i) ==
    Cardinality({j \in cands : SameBumpStop(links[j], links[i]) /\ RowBefore(links, j, i)})

\* a variant that lets the first overcap rows board and bumps the later ones
GotBumped_LaterRows(index, overcap) == index >= overcap

\* a variant that bumps one row fewer than the overcap
GotBumped_OneFewer(index, overcap) == index < overcap - 1

\* new_bumpstop_boarded = 0: these folks got bumped
GotBumped(index, overcap) == index < overcap

\* a variant that takes one more than the overcap of the vehicle row
LinkOvercap_OneMore(veh, l) == veh[l.trip_id_num][l.A_seq].overcap + 1

\* the overcap joined to a link by find_passenger_vehicle_times: that of the
\* vehicle row of its A stop
LinkOvercap(veh, l) == veh[l.trip_id_num][l.A_seq].overcap

\* the candidate rows with new_bumpstop_boarded = 0
BumpedRows(links, veh, cands) ==
    {i \in cands : GotBumped(bump_index(links, cands, i), LinkOvercap(veh, links[i]))}

\* bump_paths of the chosen candidates (drop_duplicates on the path key)
ChosenBumpPaths(links, veh, cands) ==
    {PathOf(links[i]) : i \in BumpedRows(links, veh, cands)}

\* a variant that leaves out the unchosen paths
AllBumpPaths_ChosenOnly(links, veh, bump_stops) ==
    ChosenBumpPaths(links, veh, bumpstop_boards(links, bump_stops))

\* bump_paths after the unchosen paths boarding at the bump stops are added
AllBumpPaths(links, veh, bump_stops) ==
    ChosenBumpPaths(links, veh, bumpstop_boards(links, bump_stops))
        \cup {PathOf(links[i]) : i \in unchosen_atcap_boards(links, bump_stops)}

\* a variant that records who boarded at the bump stop but leaves bump_iter
LinksAfterBump_NoMark(links, veh, bump_stops, iter) ==
    LET cands  == bumpstop_boards(links, bump_stops)
        bumped == BumpedRows(links, veh, cands)
    IN  [i \in DOMAIN links |->
            [links[i] EXCEPT
                !.bumpstop_boarded = IF i \in cands
                                     THEN (IF i \in bumped THEN 0 ELSE 1)
                                     ELSE @]]

\* a variant that sets bump_iter on the bumped rows only, not on the other
\* links of their paths
LinksAfterBump_BumpedRowsOnly(links, veh, bump_stops, iter) ==
    LET cands  == bumpstop_boards(links, bump_stops)
        bumped == BumpedRows(links, veh, cands)
    IN  [i \in DOMAIN links |->
            [links[i] EXCEPT
                !.bump_iter = IF i \in bumped THEN iter ELSE @,
                !.bumpstop_boarded = IF i \in cands
                                     THEN (IF i \in bumped THEN 0 ELSE 1)
                                     ELSE @]]

\* pathset_links_df after the two merges: bump_iter of every link of a bumped
\* path, and bumpstop_boarded of the candidate rows
LinksAfterBump(links, veh, bump_stops, iter) ==
    LET cands  == bumpstop_boards(links, bump_stops)
        bumped == BumpedRows(links, veh, cands)
        paths  == AllBumpPaths(links, veh, bump_stops)
    IN  [i \in DOMAIN links |->
            [links[i] EXCEPT
                !.bump_iter = IF PathOf(links[i]) \in paths THEN iter ELSE @,
                !.bumpstop_boarded = IF i \in cands
                                     THEN (IF i \in bumped THEN 0 ELSE 1)
                                     ELSE @]]

\* the candidate row of a bump stop that comes first in the sorted frame
FirstRow(links, cands, ts) ==
    CHOOSE i \in cands :
        /\ <<links[i].trip_id_num, links[i].A_seq>> = ts
        /\ \A j \in cands :
              (<<links[j].trip_id_num, links[j].A_seq>> = ts /\ j # i) => RowBefore(links, i, j)

\* groupby(...).first() of pf_A_time: the value of the first row of the group
GroupFirstTime(links, cands, ts) == links[FirstRow(links, cands, ts)].pf_A_time

\* group keys come out of groupby in ascending (trip, sequence) order
KeyBefore(x, y) == x[1] < y[1] \/ (x[1] = y[1] /\ x[2] < y[2])

RECURSIVE KeysInOrder(_)
KeysInOrder(S) ==
    IF S = {} THEN <<>>
    ELSE LET m == CHOOSE x \in S : \A y \in S \ {x} : KeyBefore(x, y)
         IN  <<m>> \o KeysInOrder(S \ {m})

\* new_bump_wait: one row per (trip, sequence, stop) that has a candidate
NewBumpWait(links, cands) ==
    LET keys == KeysInOrder({<<links[i].trip_id_num, links[i].A_seq>> : i \in cands})
    IN  [k \in DOMAIN keys |->
            [trip_id_num   |-> keys[k][1],
             stop_sequence |-> keys[k][2],
             stop_id_num   |-> StopId(keys[k][1], keys[k][2]),
             pf_A_time     |-> GroupFirstTime(links, cands, keys[k])]]

\* drop_duplicates(subset=[trip_id_num, stop_sequence]): of the rows with the
\* same key the first one is kept
KeepsRow(rows, i) ==
    \A j \in 1..(i - 1) :
        ~(rows[j].trip_id_num = rows[i].trip_id_num
          /\ rows[j].stop_sequence = rows[i].stop_sequence)

RECURSIVE DropDuplicatesFrom(_, _)
DropDuplicatesFrom(rows, i) ==
    IF i > Len(rows) THEN <<>>
    ELSE (IF KeepsRow(rows, i) THEN <<rows[i]>> ELSE <<>>) \o DropDuplicatesFrom(rows, i + 1)

drop_duplicates(rows) == DropDuplicatesFrom(rows, 1)

\* a variant that overwrites the registry with the rows of the last pass
IncorporateBumpWait_Overwrite(old, new) == [isNone |-> FALSE, rows |-> new]

\* incorporate new_bump_wait into Assignment.bump_wait_df
IncorporateBumpWait(old, new) ==
    IF old.isNone
    THEN [isNone |-> FALSE, rows |-> new]
    ELSE [isNone |-> FALSE, rows |-> drop_duplicates(old.rows \o new)]

(***************************************************************************)
(* The pathsets the capacity loop starts from.  Every request has one      *)
(* path with one trip link, chosen in this iteration and not bumped yet    *)
(* (simulate() sets bump_iter = -1 on the links found in this iteration).  *)
(* The realized A-time (new_A_time, set by flag_missed_transfers from the  *)
(* vehicle times) is the pathfinding A-time or one earlier.                *)
(***************************************************************************)
\* (trip, A_seq, B_seq) of the rides the schedule offers
Rides == {<<1, 1, 3>>, <<1, 2, 3>>, <<2, 1, 2>>}
Delays == {-1, 0}

NewLink(p, ride, pf, delay) ==
    [trip_list_id_num |-> p,
     pathnum          |-> 0,
     linknum          |-> 1,
     trip_id_num      |-> ride[1],
     A_seq            |-> ride[2],
     B_seq            |-> ride[3],
     new_A_time       |-> pf + delay,
     pf_A_time        |-> pf,
     chosen           |-> 1,
     bump_iter        |-> -1,
     bumpstop_boarded |-> 0]

LinkChoices(p, rides) ==
    {NewLink(p, ride, pf, delay) : ride \in rides, pf \in 1..MaxTime, delay \in Delays}

RECURSIVE PathsetChoices(_, _)
\* all pathset_links_df of n requests riding the given rides, one row each
PathsetChoices(n, rides) ==
    IF n = 0 THEN {<<>>}
    ELSE {Append(links, l) : links \in PathsetChoices(n - 1, rides),
                             l \in LinkChoices(n, rides)}

\* Trip.reset_onboard: empty vehicles
EmptyVehicles ==
    [t \in Trips |-> [s \in 1..NumStops(t) |->
        [boards |-> 0, alights |-> 0, onboard |-> 0, overcap |-> 0]]]

(***************************************************************************)
(* simulate(): the capacity loop                                           *)
(***************************************************************************)
\* veh_trips_df = put_passengers_on_vehicles(...); without capacities the
\* loop is left right away
PutPassengersOnVehicles ==
    /\ pc = "load"
    /\ veh_trips_df' = LoadedVehicles(pathset_links_df, veh_trips_df)
    /\ pc' = IF has_capacity_configured THEN "flag" ELSE "done"
    /\ UNCHANGED <<pathset_links_df, bump_wait_df, bump_iter, chosen_paths_bumped,
                   new_bump_wait, CAPACITY_CONSTRAINT, BUMP_ONE_AT_A_TIME,
                   has_capacity_configured>>
    /\ UNCHANGED poolvars
    /\ UNCHANGED outervars
    /\ veh_msa' = IF MsaUpdates(bump_iter)
                  THEN MsaVehicles(iteration,
                                   LoadedVehicles(pathset_links_df, veh_trips_df), veh_msa)
                  ELSE veh_msa
    /\ UNCHANGED veh_msa_prev
    /\ UNCHANGED cfgvars
    /\ UNCHANGED filevars
    /\ UNCHANGED extvars

\* flag_bump_overcap_passengers returns 0 before bumping anyone: there is no
\* over-capacity vehicle, or CAPACITY_CONSTRAINT is off
FlagBumpNothing ==
    /\ pc = "flag"
    /\ LET veh == WithOvercap(veh_trips_df)
       IN  /\ ReturnsBeforeBumping(veh, CAPACITY_CONSTRAINT)
           /\ veh_trips_df' = veh
           /\ pathset_links_df' = MarkAtCapBoarded(pathset_links_df, veh)
    /\ chosen_paths_bumped' = 0
    /\ pc' = "done"
    /\ UNCHANGED <<bump_wait_df, bump_iter, new_bump_wait, CAPACITY_CONSTRAINT,
                   BUMP_ONE_AT_A_TIME, has_capacity_configured>>
    /\ UNCHANGED poolvars
    /\ UNCHANGED outervars
    /\ UNCHANGED msavars
    /\ UNCHANGED cfgvars
    /\ UNCHANGED filevars
    /\ UNCHANGED extvars

\* flag_bump_overcap_passengers bumps at the bump stops, and the loop goes on
\* with bump_iter + 1 unless no chosen path was bumped
FlagBumpOvercap ==
    /\ pc = "flag"
    /\ \E veh \in {WithOvercap(veh_trips_df)} :
       \E links \in {MarkAtCapBoarded(pathset_links_df, veh)} :
           /\ ~ReturnsBeforeBumping(veh, CAPACITY_CONSTRAINT)
           /\ \E bump_stops \in BumpStopChoices(veh, BUMP_ONE_AT_A_TIME) :
                LET cands == bumpstop_boards(links, bump_stops)
                    nbw   == NewBumpWait(links, cands)
                    n     == Cardinality(ChosenBumpPaths(links, veh, cands))
                IN  /\ pathset_links_df' = LinksAfterBump(links, veh, bump_stops, bump_iter)
                    /\ chosen_paths_bumped' = n
                    /\ new_bump_wait' = nbw
                    /\ bump_wait_df' = IncorporateBumpWait(bump_wait_df, nbw)
                    /\ pc' = IF n = 0 THEN "done" ELSE "load"
                    /\ bump_iter' = IF n = 0 THEN bump_iter ELSE bump_iter + 1
           /\ veh_trips_df' = veh
    /\ UNCHANGED <<CAPACITY_CONSTRAINT, BUMP_ONE_AT_A_TIME, has_capacity_configured>>
    /\ UNCHANGED poolvars
    /\ UNCHANGED outervars
    /\ UNCHANGED msavars
    /\ UNCHANGED cfgvars
    /\ UNCHANGED filevars
    /\ UNCHANGED extvars

\* the next outer iteration that finds paths for everyone begins: the
\* vehicles are emptied (Trip.reset_onboard) and the pathsets are found anew;
\* Assignment.bump_wait_df is kept
StartIteration ==
    /\ pc = "done"
    /\ pathset_links_df' = <<>>
    /\ veh_trips_df' = EmptyVehicles
    /\ bump_iter' = 0
    /\ chosen_paths_bumped' = 0
    /\ new_bump_wait' = <<>>
    /\ pc' = "pathfind"
    /\ UNCHANGED <<bump_wait_df, CAPACITY_CONSTRAINT, BUMP_ONE_AT_A_TIME,
                   has_capacity_configured>>
    /\ UNCHANGED poolvars
    /\ UNCHANGED outervars
    /\ UNCHANGED msavars
    /\ UNCHANGED cfgvars
    /\ UNCHANGED filevars
    /\ UNCHANGED extvars

\* the path of the next request of the trip list is found and chosen; after
\* the last request simulate() starts its capacity loop
FindPath(n, rides) ==
    /\ pc = "pathfind"
    /\ Len(pathset_links_df) < n
    /\ \E l \in LinkChoices(Len(pathset_links_df) + 1, rides) :
          pathset_links_df' = Append(pathset_links_df, l)
    /\ pc' = IF Len(pathset_links_df) + 1 = n THEN "load" ELSE "pathfind"
    /\ UNCHANGED <<veh_trips_df, bump_wait_df, bump_iter, chosen_paths_bumped,
                   new_bump_wait, CAPACITY_CONSTRAINT, BUMP_ONE_AT_A_TIME,
                   has_capacity_configured>>
    /\ UNCHANGED poolvars
    /\ UNCHANGED outervars
    /\ UNCHANGED msavars
    /\ UNCHANGED cfgvars
    /\ UNCHANGED filevars
    /\ UNCHANGED extvars

(***************************************************************************)
(* generate_pathsets(): one pathfinding pass, in this process or in worker *)
(* processes.  A request is its trip_list_id_num, 1..est_paths_to_find;    *)
(* every request goes somewhere and DEBUG_TRACE_ONLY is off.               *)
(***************************************************************************)
\* multiprocessing.cpu_count()
cpu_count == MaxProcesses

\* the number of worker processes generate_pathsets settles on
NumProcesses(number_of_processes, est) ==
    LET np == IF number_of_processes < 1 THEN cpu_count ELSE number_of_processes
    IN  IF np > est * 3 THEN est \div 3 ELSE np

\* the rows Assignment.bump_wait_df holds
RegistryRows(reg) == IF reg.isNone THEN <<>> ELSE reg.rows

\* set_fasttrips_bump_wait: the rows the extension holds afterwards; nothing
\* is sent for None or an empty frame
set_fasttrips_bump_wait(held, df) ==
    IF df.isNone THEN held
    ELSE IF Len(df.rows) = 0 THEN held
    ELSE df.rows

\* the bump wait rows of a worker's extension after its start: the extension
\* is initialized, and after iteration 1 it is sent the bump_wait_df the
\* process was started with
WorkerBumpWait(iter, df) ==
    IF iter > 1 THEN set_fasttrips_bump_wait(<<>>, df) ELSE <<>>

\* the items of todo_queue: a pathset, or the 'DONE' token
TodoPathset(id) == [token |-> "pathset", trip_list_id_num |-> id]
TodoDone == [token |-> "DONE", trip_list_id_num |-> 0]

\* the items of done_queue
Result(w, kind, id, found) ==
    [worker_num |-> w, kind |-> kind, trip_list_id |-> id, path_found |-> found]

\* PathSet.pathdict as far as path_found() tells
PathDictOf(found) == IF found THEN "found" ELSE "notfound"

Workers == DOMAIN worker_pc

\* a variant in which a process never stops being alive
is_alive_Forever(w) == TRUE

\* Process.is_alive()
is_alive(w) == worker_pc[w] \notin {"exited", "crashed"}

\* generate_pathsets up to the loop over the trip list: nothing to find, or
\* the worker processes are started, or the extension is initialized here
GeneratePathsets ==
    /\ gp_pc = "start"
    /\ IF est_paths_to_find = 0
       THEN /\ gp_pc' = "returned"
            /\ UNCHANGED <<num_processes, process_dict, worker_pc, worker_todo, crash_report>>
       ELSE LET np == NumProcesses(NUMBER_OF_PROCESSES, est_paths_to_find)
                ws == IF np > 1 THEN 1..np ELSE {}
            IN  /\ num_processes' = np
                /\ process_dict' = [w \in ws |-> [alive |-> TRUE, done |-> FALSE, working_on |-> 0]]
                /\ worker_pc' = [w \in ws |-> "init"]
                /\ worker_todo' = [w \in ws |-> 0]
                /\ crash_report' = [w \in ws |-> "none"]
                /\ gp_pc' = "tasks"
    /\ UNCHANGED <<iteration, NUMBER_OF_PROCESSES, est_paths_to_find, todo_queue, done_queue,
                   done_procs, pathdict, num_paths_found_now, next_path, engine_bump_wait,
                   completed_put>>
    /\ UNCHANGED simvars
    /\ UNCHANGED outervars
    /\ UNCHANGED msavars
    /\ UNCHANGED cfgvars
    /\ UNCHANGED filevars
    /\ UNCHANGED extvars

\* the loop over the trip list with workers: the pathset is put on todo_queue
TodoPut ==
    /\ gp_pc = "tasks"
    /\ num_processes > 1
    /\ next_path <= est_paths_to_find
    /\ pathdict' = IF iteration = 1 THEN [pathdict EXCEPT ![next_path] = "none"] ELSE pathdict
    /\ todo_queue' = Append(todo_queue, TodoPathset(next_path))
    /\ next_path' = next_path + 1
    /\ UNCHANGED <<iteration, NUMBER_OF_PROCESSES, est_paths_to_find, num_processes, done_queue,
                   process_dict, done_procs, num_paths_found_now, crash_report, gp_pc,
                   worker_pc, worker_todo, engine_bump_wait, completed_put>>
    /\ UNCHANGED simvars
    /\ UNCHANGED outervars
    /\ UNCHANGED msavars
    /\ UNCHANGED cfgvars
    /\ UNCHANGED filevars
    /\ UNCHANGED extvars

\* the loop over the trip list without workers: find_trip_based_pathset is
\* called here, on the extension of this process (engine 0)
FindInProcess ==
    /\ gp_pc = "tasks"
    /\ num_processes <= 1
    /\ next_path <= est_paths_to_find
    /\ \E found \in BOOLEAN :
          /\ pathdict' = [pathdict EXCEPT ![next_path] = PathDictOf(found)]
          /\ num_paths_found_now' = num_paths_found_now + (IF found THEN 1 ELSE 0)
    /\ next_path' = next_path + 1
    /\ UNCHANGED <<iteration, NUMBER_OF_PROCESSES, est_paths_to_find, num_processes, todo_queue,
                   done_queue, process_dict, done_procs, crash_report, gp_pc, worker_pc,
                   worker_todo, engine_bump_wait, completed_put>>
    /\ UNCHANGED simvars
    /\ UNCHANGED outervars
    /\ UNCHANGED msavars
    /\ UNCHANGED cfgvars
    /\ UNCHANGED filevars
    /\ UNCHANGED extvars

\* find_trip_based_pathset raises here: the error is logged and sys.exit(2)
FindInProcessRaises ==
    /\ gp_pc = "tasks"
    /\ num_processes <= 1
    /\ next_path <= est_paths_to_find
    /\ gp_pc' = "exit"
    /\ UNCHANGED <<iteration, NUMBER_OF_PROCESSES, est_paths_to_find, num_processes, todo_queue,
                   done_queue, process_dict, done_procs, pathdict, num_paths_found_now,
                   next_path, crash_report, worker_pc, worker_todo, engine_bump_wait,
                   completed_put>>
    /\ UNCHANGED simvars
    /\ UNCHANGED outervars
    /\ UNCHANGED msavars
    /\ UNCHANGED cfgvars
    /\ UNCHANGED filevars
    /\ UNCHANGED extvars

\* after the loop: one 'DONE' per worker and on to the results, or the return
EndOfTasks ==
    /\ gp_pc = "tasks"
    /\ next_path > est_paths_to_find
    /\ IF num_processes > 1
       THEN /\ todo_queue' = todo_queue \o [k \in 1..num_processes |-> TodoDone]
            /\ done_procs' = 0
            /\ gp_pc' = "results"
       ELSE /\ gp_pc' = "returned"
            /\ UNCHANGED <<todo_queue, done_procs>>
    /\ UNCHANGED <<iteration, NUMBER_OF_PROCESSES, est_paths_to_find, num_processes, done_queue,
                   process_dict, pathdict, num_paths_found_now, next_path, crash_report,
                   worker_pc, worker_todo, engine_bump_wait, completed_put>>
    /\ UNCHANGED simvars
    /\ UNCHANGED outervars
    /\ UNCHANGED msavars
    /\ UNCHANGED cfgvars
    /\ UNCHANGED filevars
    /\ UNCHANGED extvars

\* the result loop: done_queue.get(True, 30) returns the oldest result, which
\* is handled by its kind; anything but DONE, STARTING and COMPLETED is printed
GetResult ==
    /\ gp_pc = "results"
    /\ done_queue # <<>>
    /\ LET result == Head(done_queue)
           w      == result.worker_num
       IN  /\ process_dict' =
                 CASE result.kind = "DONE" ->
                        [process_dict EXCEPT ![w].done = TRUE]
                   [] result.kind = "STARTING" ->
                        [process_dict EXCEPT ![w].working_on = result.trip_list_id]
                   [] result.kind = "COMPLETED" ->
                        [process_dict EXCEPT ![w].working_on = 0]
                   [] OTHER -> process_dict
           /\ pathdict' =
                 IF result.kind = "COMPLETED"
                 THEN [pathdict EXCEPT ![result.trip_list_id] = PathDictOf(result.path_found)]
                 ELSE pathdict
           /\ num_paths_found_now' =
                 IF result.kind = "COMPLETED" /\ result.path_found
                 THEN num_paths_found_now + 1
                 ELSE num_paths_found_now
    /\ done_queue' = Tail(done_queue)
    /\ gp_pc' = "alive"
    /\ UNCHANGED <<iteration, NUMBER_OF_PROCESSES, est_paths_to_find, num_processes, todo_queue,
                   done_procs, next_path, crash_report, worker_pc, worker_todo,
                   engine_bump_wait, completed_put>>
    /\ UNCHANGED simvars
    /\ UNCHANGED outervars
    /\ UNCHANGED msavars
    /\ UNCHANGED cfgvars
    /\ UNCHANGED filevars
    /\ UNCHANGED extvars

\* the result loop: nothing arrives within the timeout (Queue.Empty)
GetResultEmpty ==
    /\ gp_pc = "results"
    /\ done_queue = <<>>
    /\ gp_pc' = "alive"
    /\ UNCHANGED <<iteration, NUMBER_OF_PROCESSES, est_paths_to_find, num_processes, todo_queue,
                   done_queue, process_dict, done_procs, pathdict, num_paths_found_now,
                   next_path, crash_report, worker_pc, worker_todo, engine_bump_wait,
                   completed_put>>
    /\ UNCHANGED simvars
    /\ UNCHANGED outervars
    /\ UNCHANGED msavars
    /\ UNCHANGED cfgvars
    /\ UNCHANGED filevars
    /\ UNCHANGED extvars

\* the result loop: every process that is flagged alive and is not alive any
\* more is counted in done_procs; the loop goes on while done_procs is less
\* than the number of processes
CheckAlive ==
    /\ gp_pc = "alive"
    /\ LET gone == {w \in DOMAIN process_dict : process_dict[w].alive /\ ~is_alive(w)}
       IN  /\ process_dict' = [w \in DOMAIN process_dict |->
                                  IF w \in gone THEN [process_dict[w] EXCEPT !.alive = FALSE]
                                  ELSE process_dict[w]]
           /\ done_procs' = done_procs + Cardinality(gone)
           /\ gp_pc' = IF done_procs + Cardinality(gone) < Cardinality(DOMAIN process_dict)
                       THEN "results" ELSE "join"
    /\ UNCHANGED <<iteration, NUMBER_OF_PROCESSES, est_paths_to_find, num_processes, todo_queue,
                   done_queue, pathdict, num_paths_found_now, next_path, crash_report,
                   worker_pc, worker_todo, engine_bump_wait, completed_put>>
    /\ UNCHANGED simvars
    /\ UNCHANGED outervars
    /\ UNCHANGED msavars
    /\ UNCHANGED cfgvars
    /\ UNCHANGED filevars
    /\ UNCHANGED extvars

\* the crash check: the line logged for a process by its process_dict entry
CrashLine(entry) ==
    IF ~entry.done
    THEN (IF entry.working_on # 0 THEN "crashed working on" ELSE "crashed see log")
    ELSE "none"

\* the processes are joined, the crash check is made and generate_pathsets
\* returns
JoinAndReport ==
    /\ gp_pc = "join"
    /\ \A w \in DOMAIN process_dict : ~is_alive(w)
    /\ crash_report' = [w \in DOMAIN process_dict |-> CrashLine(process_dict[w])]
    /\ gp_pc' = "returned"
    /\ UNCHANGED <<iteration, NUMBER_OF_PROCESSES, est_paths_to_find, num_processes, todo_queue,
                   done_queue, process_dict, done_procs, pathdict, num_paths_found_now,
                   next_path, worker_pc, worker_todo, engine_bump_wait, completed_put>>
    /\ UNCHANGED simvars
    /\ UNCHANGED outervars
    /\ UNCHANGED msavars
    /\ UNCHANGED cfgvars
    /\ UNCHANGED filevars
    /\ UNCHANGED extvars

(***************************************************************************)
(* find_trip_based_paths_process_worker                                    *)
(***************************************************************************)
\* the worker starts: configuration, extension, bump wait
WorkerStart(w) ==
    /\ worker_pc[w] = "init"
    /\ engine_bump_wait' = [engine_bump_wait EXCEPT ![w] = WorkerBumpWait(iteration, bump_wait_df)]
    /\ worker_pc' = [worker_pc EXCEPT ![w] = "get"]
    /\ UNCHANGED <<iteration, NUMBER_OF_PROCESSES, est_paths_to_find, num_processes, todo_queue,
                   done_queue, process_dict, done_procs, pathdict, num_paths_found_now,
                   next_path, crash_report, gp_pc, worker_todo, completed_put>>
    /\ UNCHANGED simvars
    /\ UNCHANGED outervars
    /\ UNCHANGED msavars
    /\ UNCHANGED cfgvars
    /\ UNCHANGED filevars
    /\ UNCHANGED extvars

\* a variant in which the worker goes back to todo_queue after a 'DONE'
WorkerGet_AfterDone(w) ==
    /\ worker_pc[w] = "get"
    /\ todo_queue # <<>>
    /\ todo_queue' = Tail(todo_queue)
    /\ IF Head(todo_queue) = TodoDone
       THEN /\ done_queue' = Append(done_queue, Result(w, "DONE", 0, FALSE))
            /\ worker_pc' = [worker_pc EXCEPT ![w] = "get"]
            /\ UNCHANGED worker_todo
       ELSE /\ done_queue' = Append(done_queue, Result(w, "STARTING", Head(todo_queue).trip_list_id_num, FALSE))
            /\ worker_pc' = [worker_pc EXCEPT ![w] = "work"]
            /\ worker_todo' = [worker_todo EXCEPT ![w] = Head(todo_queue).trip_list_id_num]
    /\ UNCHANGED <<iteration, NUMBER_OF_PROCESSES, est_paths_to_find, num_processes,
                   process_dict, done_procs, pathdict, num_paths_found_now, next_path,
                   crash_report, gp_pc, engine_bump_wait, completed_put>>
    /\ UNCHANGED simvars
    /\ UNCHANGED outervars
    /\ UNCHANGED msavars
    /\ UNCHANGED cfgvars
    /\ UNCHANGED filevars
    /\ UNCHANGED extvars

\* todo_pathset_queue.get(): on 'DONE' the worker puts DONE and returns, else
\* it puts STARTING and goes to work on the pathset
WorkerGet(w) ==
    /\ worker_pc[w] = "get"
    /\ todo_queue # <<>>
    /\ todo_queue' = Tail(todo_queue)
    /\ IF Head(todo_queue) = TodoDone
       THEN /\ done_queue' = Append(done_queue, Result(w, "DONE", 0, FALSE))
            /\ worker_pc' = [worker_pc EXCEPT ![w] = "return"]
            /\ UNCHANGED worker_todo
       ELSE /\ done_queue' = Append(done_queue, Result(w, "STARTING", Head(todo_queue).trip_list_id_num, FALSE))
            /\ worker_pc' = [worker_pc EXCEPT ![w] = "work"]
            /\ worker_todo' = [worker_todo EXCEPT ![w] = Head(todo_queue).trip_list_id_num]
    /\ UNCHANGED <<iteration, NUMBER_OF_PROCESSES, est_paths_to_find, num_processes,
                   process_dict, done_procs, pathdict, num_paths_found_now, next_path,
                   crash_report, gp_pc, engine_bump_wait, completed_put>>
    /\ UNCHANGED simvars
    /\ UNCHANGED outervars
    /\ UNCHANGED msavars
    /\ UNCHANGED cfgvars
    /\ UNCHANGED filevars
    /\ UNCHANGED extvars

\* find_trip_based_pathset returns and the worker puts COMPLETED
WorkerCompleted(w) ==
    /\ worker_pc[w] = "work"
    /\ \E found \in BOOLEAN :
          /\ done_queue' = Append(done_queue, Result(w, "COMPLETED", worker_todo[w], found))
          /\ completed_put' = [completed_put EXCEPT ![worker_todo[w]] = PathDictOf(found)]
    /\ worker_pc' = [worker_pc EXCEPT ![w] = "get"]
    /\ UNCHANGED <<iteration, NUMBER_OF_PROCESSES, est_paths_to_find, num_processes, todo_queue,
                   process_dict, done_procs, pathdict, num_paths_found_now, next_path,
                   crash_report, gp_pc, worker_todo, engine_bump_wait>>
    /\ UNCHANGED simvars
    /\ UNCHANGED outervars
    /\ UNCHANGED msavars
    /\ UNCHANGED cfgvars
    /\ UNCHANGED filevars
    /\ UNCHANGED extvars

\* find_trip_based_pathset raises: the worker puts EXCEPTION and goes on
WorkerException(w) ==
    /\ worker_pc[w] = "work"
    /\ done_queue' = Append(done_queue, Result(w, "EXCEPTION", 0, FALSE))
    /\ worker_pc' = [worker_pc EXCEPT ![w] = "get"]
    /\ UNCHANGED <<iteration, NUMBER_OF_PROCESSES, est_paths_to_find, num_processes, todo_queue,
                   process_dict, done_procs, pathdict, num_paths_found_now, next_path,
                   crash_report, gp_pc, worker_todo, engine_bump_wait, completed_put>>
    /\ UNCHANGED simvars
    /\ UNCHANGED outervars
    /\ UNCHANGED msavars
    /\ UNCHANGED cfgvars
    /\ UNCHANGED filevars
    /\ UNCHANGED extvars

\* the worker process dies in the extension while it works on a pathset
WorkerCrash(w) ==
    /\ worker_pc[w] = "work"
    /\ worker_pc' = [worker_pc EXCEPT ![w] = "crashed"]
    /\ UNCHANGED <<iteration, NUMBER_OF_PROCESSES, est_paths_to_find, num_processes, todo_queue,
                   done_queue, process_dict, done_procs, pathdict, num_paths_found_now,
                   next_path, crash_report, gp_pc, worker_todo, engine_bump_wait, completed_put>>
    /\ UNCHANGED simvars
    /\ UNCHANGED outervars
    /\ UNCHANGED msavars
    /\ UNCHANGED cfgvars
    /\ UNCHANGED filevars
    /\ UNCHANGED extvars

\* the worker process ends after the return (its results are on done_queue)
WorkerExit(w) ==
    /\ worker_pc[w] = "return"
    /\ worker_pc' = [worker_pc EXCEPT ![w] = "exited"]
    /\ UNCHANGED <<iteration, NUMBER_OF_PROCESSES, est_paths_to_find, num_processes, todo_queue,
                   done_queue, process_dict, done_procs, pathdict, num_paths_found_now,
                   next_path, crash_report, gp_pc, worker_todo, engine_bump_wait, completed_put>>
    /\ UNCHANGED simvars
    /\ UNCHANGED outervars
    /\ UNCHANGED msavars
    /\ UNCHANGED cfgvars
    /\ UNCHANGED filevars
    /\ UNCHANGED extvars

\* assign_paths is not followed: the values of its variables outside of it
OuterIdle ==
    /\ ITERATION_FLAG = 1
    /\ SIMULATION = TRUE
    /\ PATHFINDING_READ_FILE = FALSE
    /\ PATHFINDING_EVERYONE = TRUE
    /\ pathset_paths_df = [isNone |-> TRUE, rows |-> {}]
    /\ new_pathset_paths_df = [isNone |-> TRUE, rows |-> {}]
    /\ pathfind_trip_list_df = {}
    /\ simulation_iteration = 0
    /\ num_chosen = 0
    /\ num_paths_found = 0
    /\ num_passengers_arrived = 0
    /\ ap_pc = "idle"

\* no pathfinding pass is under way
PoolIdle ==
    /\ iteration = 1
    /\ NUMBER_OF_PROCESSES = 1
    /\ est_paths_to_find = 0
    /\ num_processes = 0
    /\ todo_queue = <<>>
    /\ done_queue = <<>>
    /\ process_dict = <<>>
    /\ done_procs = 0
    /\ pathdict = <<>>
    /\ num_paths_found_now = 0
    /\ next_path = 1
    /\ crash_report = <<>>
    /\ gp_pc = "idle"
    /\ worker_pc = <<>>
    /\ worker_todo = <<>>
    /\ engine_bump_wait = [e \in 0..MaxProcesses |-> <<>>]
    /\ completed_put = <<>>

InitSimulate(n, rides) ==
    /\ PoolIdle
    /\ OuterIdle
    /\ MsaIdle
    /\ CfgIdle
    /\ FileIdle
    /\ ExtIdle
    /\ pathset_links_df \in PathsetChoices(n, rides)
    /\ veh_trips_df = EmptyVehicles
    /\ bump_wait_df = [isNone |-> TRUE, rows |-> <<>>]
    /\ bump_iter = 0
    /\ chosen_paths_bumped = 0
    /\ new_bump_wait = <<>>
    /\ pc = "load"
    /\ CAPACITY_CONSTRAINT = TRUE
    /\ has_capacity_configured = TRUE
    /\ BUMP_ONE_AT_A_TIME = FALSE

\* one simulation iteration of iteration 1 on any pathsets of NumPax requests
Init == InitSimulate(NumPax, Rides)

Next ==
    \/ PutPassengersOnVehicles
    \/ FlagBumpNothing
    \/ FlagBumpOvercap

Spec == Init /\ [][Next]_vars

\* outer iterations one after the other, on the rides that board at the
\* first stop of each trip
WaitRides == {<<1, 1, 3>>, <<2, 1, 2>>}

InitWait == InitSimulate(NumPaxWait, WaitRides)

NextWait ==
    \/ PutPassengersOnVehicles
    \/ FlagBumpNothing
    \/ FlagBumpOvercap
    \/ StartIteration
    \/ FindPath(NumPaxWait, WaitRides)

SpecWait == InitWait /\ [][NextWait]_vars

\* the capacity loop on pathsets whose paths may alight before the last stop
\* of a trip and may ride two trips
LoadRides == {<<1, 1, 2>>, <<1, 2, 3>>, <<1, 1, 3>>, <<2, 1, 2>>}

\* the chosen path of request p: one trip link, or trip 1 from stop 10 to
\* stop 20 and then trip 2 from stop 20 to stop 30
LoadPaths(p) ==
    {<<NewLink(p, ride, pf, 0)>> : ride \in LoadRides, pf \in 1..MaxTime}
        \cup {<<NewLink(p, <<1, 1, 2>>, pf, 0),
                [NewLink(p, <<2, 1, 2>>, pf2, 0) EXCEPT !.linknum = 3]>> :
                  pf \in 1..MaxTime, pf2 \in 1..MaxTime}

RECURSIVE LoadPathsets(_)
\* all pathset_links_df of n requests with one chosen path each
LoadPathsets(n) ==
    IF n = 0 THEN {<<>>}
    ELSE {links \o path : links \in LoadPathsets(n - 1), path \in LoadPaths(n)}

InitLoad ==
    /\ PoolIdle
    /\ OuterIdle
    /\ MsaIdle
    /\ CfgIdle
    /\ FileIdle
    /\ ExtIdle
    /\ pathset_links_df \in LoadPathsets(NumPaxLoad)
    /\ veh_trips_df = EmptyVehicles
    /\ bump_wait_df = [isNone |-> TRUE, rows |-> <<>>]
    /\ bump_iter = 0
    /\ chosen_paths_bumped = 0
    /\ new_bump_wait = <<>>
    /\ pc = "load"
    /\ CAPACITY_CONSTRAINT = TRUE
    /\ has_capacity_configured = TRUE
    /\ BUMP_ONE_AT_A_TIME = FALSE

NextLoad ==
    \/ PutPassengersOnVehicles
    \/ FlagBumpNothing
    \/ FlagBumpOvercap

SpecLoad == InitLoad /\ [][NextLoad]_vars

\* the capacity loop under every setting of the capacity configuration
InitBump ==
    /\ PoolIdle
    /\ OuterIdle
    /\ MsaIdle
    /\ CfgIdle
    /\ FileIdle
    /\ ExtIdle
    /\ pathset_links_df \in LoadPathsets(NumPaxLoad)
    /\ veh_trips_df = EmptyVehicles
    /\ bump_wait_df = [isNone |-> TRUE, rows |-> <<>>]
    /\ bump_iter = 0
    /\ chosen_paths_bumped = 0
    /\ new_bump_wait = <<>>
    /\ pc = "load"
    /\ CAPACITY_CONSTRAINT \in BOOLEAN
    /\ has_capacity_configured \in BOOLEAN
    /\ BUMP_ONE_AT_A_TIME \in BOOLEAN

NextBump ==
    \/ PutPassengersOnVehicles
    \/ FlagBumpNothing
    \/ FlagBumpOvercap

SpecBump == InitBump /\ [][NextBump]_vars

\* a registry with one key, as a bump pass at the first stop of trip 1 leaves it
OneKeyRegistry ==
    [isNone |-> FALSE,
     rows   |-> <<[trip_id_num |-> 1, stop_sequence |-> 1, stop_id_num |-> StopId(1, 1),
                   pf_A_time |-> 1]>>]

\* the start of a pathfinding pass: iteration 1 has no registry yet, a later
\* iteration has none or one with a key
InitPool ==
    /\ OuterIdle
    /\ MsaIdle
    /\ CfgIdle
    /\ FileIdle
    /\ ExtIdle
    /\ iteration \in 1..MaxIteration
    /\ NUMBER_OF_PROCESSES \in 0..MaxProcesses
    /\ est_paths_to_find \in 0..NumRequests
    /\ bump_wait_df \in (IF iteration = 1
                         THEN {[isNone |-> TRUE, rows |-> <<>>]}
                         ELSE {[isNone |-> TRUE, rows |-> <<>>], OneKeyRegistry})
    /\ num_processes = 0
    /\ todo_queue = <<>>
    /\ done_queue = <<>>
    /\ process_dict = <<>>
    /\ done_procs = 0
    /\ pathdict = [r \in 1..est_paths_to_find |-> IF iteration = 1 THEN "none" ELSE "old"]
    /\ num_paths_found_now = 0
    /\ next_path = 1
    /\ crash_report = <<>>
    /\ gp_pc = "start"
    /\ worker_pc = <<>>
    /\ worker_todo = <<>>
    /\ engine_bump_wait = [e \in 0..MaxProcesses |-> <<>>]
    /\ completed_put = [r \in 1..est_paths_to_find |-> "none"]
    /\ pathset_links_df = <<>>
    /\ veh_trips_df = EmptyVehicles
    /\ bump_iter = 0
    /\ chosen_paths_bumped = 0
    /\ new_bump_wait = <<>>
    /\ pc = "generate_pathsets"
    /\ CAPACITY_CONSTRAINT = TRUE
    /\ has_capacity_configured = TRUE
    /\ BUMP_ONE_AT_A_TIME = FALSE

NextPool ==
    \/ GeneratePathsets
    \/ TodoPut
    \/ FindInProcess
    \/ FindInProcessRaises
    \/ EndOfTasks
    \/ GetResult
    \/ GetResultEmpty
    \/ CheckAlive
    \/ JoinAndReport
    \/ \E w \in Workers : WorkerStart(w)
    \/ \E w \in Workers : WorkerGet(w)
    \/ \E w \in Workers : WorkerCompleted(w)
    \/ \E w \in Workers : WorkerException(w)
    \/ \E w \in Workers : WorkerCrash(w)
    \/ \E w \in Workers : WorkerExit(w)

SpecPool == InitPool /\ [][NextPool]_vars

\* the steps of the driver, and those of worker w
DriverStep ==
    \/ GeneratePathsets
    \/ TodoPut
    \/ FindInProcess
    \/ FindInProcessRaises
    \/ EndOfTasks
    \/ GetResult
    \/ GetResultEmpty
    \/ CheckAlive
    \/ JoinAndReport

WorkerStep(w) ==
    /\ w \in Workers
    /\ \/ WorkerStart(w)
       \/ WorkerGet(w)
       \/ WorkerCompleted(w)
       \/ WorkerException(w)
       \/ WorkerCrash(w)
       \/ WorkerExit(w)

\* a pass of iteration 1 with a configured number of processes, on a trip
\* list that is one request short of NumRequests
InitPoolFair ==
    /\ InitPool
    /\ iteration = 1
    /\ NUMBER_OF_PROCESSES >= 1
    /\ est_paths_to_find < NumRequests

\* the driver and every worker process keep running while they can take a step
\* (the get() calls block only while their queue is empty)
SpecPoolFair ==
    /\ InitPoolFair
    /\ [][NextPool]_vars
    /\ WF_vars(DriverStep)
    /\ \A w \in 1..MaxProcesses : WF_vars(WorkerStep(w))

\* the requests of a pass with more requests than worker processes
NumQueued == 3

\* a pass of iteration 1 in which MaxProcesses workers share NumQueued requests
InitQueue ==
    /\ OuterIdle
    /\ MsaIdle
    /\ CfgIdle
    /\ FileIdle
    /\ ExtIdle
    /\ iteration = 1
    /\ NUMBER_OF_PROCESSES = MaxProcesses
    /\ est_paths_to_find = NumQueued
    /\ bump_wait_df = [isNone |-> TRUE, rows |-> <<>>]
    /\ num_processes = 0
    /\ todo_queue = <<>>
    /\ done_queue = <<>>
    /\ process_dict = <<>>
    /\ done_procs = 0
    /\ pathdict = [r \in 1..est_paths_to_find |-> "none"]
    /\ num_paths_found_now = 0
    /\ next_path = 1
    /\ crash_report = <<>>
    /\ gp_pc = "start"
    /\ worker_pc = <<>>
    /\ worker_todo = <<>>
    /\ engine_bump_wait = [e \in 0..MaxProcesses |-> <<>>]
    /\ completed_put = [r \in 1..est_paths_to_find |-> "none"]
    /\ pathset_links_df = <<>>
    /\ veh_trips_df = EmptyVehicles
    /\ bump_iter = 0
    /\ chosen_paths_bumped = 0
    /\ new_bump_wait = <<>>
    /\ pc = "generate_pathsets"
    /\ CAPACITY_CONSTRAINT = TRUE
    /\ has_capacity_configured = TRUE
    /\ BUMP_ONE_AT_A_TIME = FALSE

\* the steps of a pass that starts worker processes: the pathsets are never
\* found in the driver's own process
NextQueue ==
    \/ GeneratePathsets
    \/ TodoPut
    \/ EndOfTasks
    \/ GetResult
    \/ GetResultEmpty
    \/ CheckAlive
    \/ JoinAndReport
    \/ \E w \in Workers : WorkerStart(w)
    \/ \E w \in Workers : WorkerGet(w)
    \/ \E w \in Workers : WorkerCompleted(w)
    \/ \E w \in Workers : WorkerException(w)
    \/ \E w \in Workers : WorkerCrash(w)
    \/ \E w \in Workers : WorkerExit(w)

\* the driver and every worker process keep running while they can take a step
SpecQueue ==
    /\ InitQueue
    /\ [][NextQueue]_vars
    /\ WF_vars(DriverStep)
    /\ \A w \in 1..MaxProcesses : WF_vars(WorkerStep(w))

(***************************************************************************)
(* find_trip_based_pathset on what the extension may return                *)
(***************************************************************************)
\* the codes a link row may carry in its mode column
ModeCodes == {CodeAccess, CodeEgress, CodeTransfer, CodeTransit, SupplyModeNum}

\* row k of ret_ints: the path it belongs to, its stop (the rows are told
\* apart by it) and its mode code
LinkRows(k, num_paths) ==
    {[path_num |-> p, stop_id |-> k, mode |-> c] : p \in 0..(num_paths - 1), c \in ModeCodes}

RECURSIVE RetInts(_, _)
\* all ret_ints of n rows that name paths of the cost matrix, in any order
RetInts(n, num_paths) ==
    IF n = 0 THEN {<<>>}
    ELSE {Append(ints, row) : ints \in RetInts(n - 1, num_paths), row \in LinkRows(n, num_paths)}

\* the cost and the probability of the paths
PathCosts(num_paths) == [p \in 1..num_paths |-> <<p, 1>>]

\* the loop over path_costs and ret_ints: pathdict is built and returned
FindTripBasedPathset ==
    /\ ftp_pc = "called"
    /\ pathdict' = [pathdict EXCEPT ![1] = BuildPathdict(path_costs, ret_ints)]
    /\ ftp_pc' = "returned"
    /\ UNCHANGED <<ret_ints, path_costs>>
    /\ UNCHANGED <<iteration, NUMBER_OF_PROCESSES, est_paths_to_find, num_processes, todo_queue,
                   done_queue, process_dict, done_procs, num_paths_found_now, next_path,
                   crash_report, gp_pc, worker_pc, worker_todo, engine_bump_wait, completed_put>>
    /\ UNCHANGED simvars
    /\ UNCHANGED outervars
    /\ UNCHANGED msavars
    /\ UNCHANGED cfgvars
    /\ UNCHANGED filevars

\* the extension has returned for request 1, in a pass without workers
InitPathset ==
    /\ OuterIdle
    /\ MsaIdle
    /\ CfgIdle
    /\ FileIdle
    /\ \E num_paths \in 0..MaxPaths :
          /\ path_costs = PathCosts(num_paths)
          /\ \E n \in 0..MaxRows : ret_ints \in RetInts(n, num_paths)
    /\ ftp_pc = "called"
    /\ iteration = 1
    /\ NUMBER_OF_PROCESSES = 1
    /\ est_paths_to_find = 1
    /\ bump_wait_df = [isNone |-> TRUE, rows |-> <<>>]
    /\ num_processes = 1
    /\ todo_queue = <<>>
    /\ done_queue = <<>>
    /\ process_dict = <<>>
    /\ done_procs = 0
    /\ pathdict = [r \in 1..est_paths_to_find |-> "none"]
    /\ num_paths_found_now = 0
    /\ next_path = 1
    /\ crash_report = <<>>
    /\ gp_pc = "tasks"
    /\ worker_pc = <<>>
    /\ worker_todo = <<>>
    /\ engine_bump_wait = [e \in 0..MaxProcesses |-> <<>>]
    /\ completed_put = [r \in 1..est_paths_to_find |-> "none"]
    /\ pathset_links_df = <<>>
    /\ veh_trips_df = EmptyVehicles
    /\ bump_iter = 0
    /\ chosen_paths_bumped = 0
    /\ new_bump_wait = <<>>
    /\ pc = "generate_pathsets"
    /\ CAPACITY_CONSTRAINT = TRUE
    /\ has_capacity_configured = TRUE
    /\ BUMP_ONE_AT_A_TIME = FALSE

NextPathset == FindTripBasedPathset

SpecPathset == InitPathset /\ [][NextPathset]_vars

(***************************************************************************)
(* generate_pathsets: the driver is interrupted (KeyboardInterrupt or      *)
(* SystemExit) inside the try block                                        *)
(***************************************************************************)
\* "for proc in process_dict: proc.terminate()" and then sys.exit(2): the loop
\* is over the keys of process_dict, the process indices, and an int has no
\* terminate(), so with any process in the dictionary the handler raises
\* AttributeError on the first key; with none the loop is empty
TerminateProcesses(dict) ==
    IF DOMAIN dict = {} THEN "exit" ELSE "AttributeError"

\* the interrupt arrives outside of done_queue.get(): the handler of
\* (KeyboardInterrupt, SystemExit) runs
Interrupt ==
    /\ gp_pc \in {"tasks", "alive", "join"}
    /\ gp_pc' = TerminateProcesses(process_dict)
    /\ UNCHANGED <<iteration, NUMBER_OF_PROCESSES, est_paths_to_find, num_processes, todo_queue,
                   done_queue, process_dict, done_procs, pathdict, num_paths_found_now,
                   next_path, crash_report, worker_pc, worker_todo, engine_bump_wait,
                   completed_put>>
    /\ UNCHANGED simvars
    /\ UNCHANGED outervars
    /\ UNCHANGED msavars
    /\ UNCHANGED cfgvars
    /\ UNCHANGED filevars
    /\ UNCHANGED extvars

\* the interrupt arrives inside done_queue.get(True, 30): the bare except of
\* the result loop catches it, logs "Caught exception" and passes
InterruptInGet ==
    /\ gp_pc = "results"
    /\ gp_pc' = "alive"
    /\ UNCHANGED <<iteration, NUMBER_OF_PROCESSES, est_paths_to_find, num_processes, todo_queue,
                   done_queue, process_dict, done_procs, pathdict, num_paths_found_now,
                   next_path, crash_report, worker_pc, worker_todo, engine_bump_wait,
                   completed_put>>
    /\ UNCHANGED simvars
    /\ UNCHANGED outervars
    /\ UNCHANGED msavars
    /\ UNCHANGED cfgvars
    /\ UNCHANGED filevars
    /\ UNCHANGED extvars

\* a pass of iteration 1 that may be interrupted
InitInterrupt ==
    /\ InitPool
    /\ iteration = 1

NextInterrupt ==
    \/ NextPool
    \/ Interrupt
    \/ InterruptInGet

SpecInterrupt == InitInterrupt /\ [][NextInterrupt]_vars

(***************************************************************************)
(* assign_paths(): the outer iterations.  A pathfinding pass is taken as a *)
(* whole here (which requests it searches and which of them get a          *)
(* pathset), and so is the body of the simulation loop.  A row of          *)
(* pathset_paths_df stands for the paths of one request: its chosen is the *)
(* largest chosen status of these paths.                                   *)
(***************************************************************************)
MAX_SIMULATION_ITERS == 10

\* FT.passengers.trip_list_df
TripList == 1..NumTripList

\* a row of pathset_paths_df
PathsRow(id, chosen) == [trip_list_id_num |-> id, chosen |-> chosen, missed_xfer |-> 0]

\* the variant that keeps the requests that have a chosen path
filter_trip_list_Arrived(trip_list_df, paths_df) ==
    {r \in trip_list_df :
        \E p \in paths_df.rows : p.chosen >= 0 /\ p.trip_list_id_num = r}

\* the trip list without the requests that have a path with chosen >= 0
filter_trip_list_to_not_arrived(trip_list_df, paths_df) ==
    LET chosen_paths_df == {p \in paths_df.rows : p.chosen >= 0}
    IN  {r \in trip_list_df : \A p \in chosen_paths_df : p.trip_list_id_num # r}

\* the requests generate_pathsets finds paths for
PathfindTripList(iter, trip_list_df, paths_df) ==
    IF iter % 2 = 0
    THEN filter_trip_list_to_not_arrived(trip_list_df, paths_df)
    ELSE trip_list_df

\* Assignment.PATHFINDING_EVERYONE after generate_pathsets: an even iteration
\* sets the class attribute to False, an odd one assigns a local variable
PathfindingEveryoneAfter(iter, everyone) ==
    IF iter % 2 = 0 THEN FALSE ELSE everyone

\* a variant that filters out the retained paths of the requests that have
\* new paths, not of all the requests that were searched
merge_pathsets_FoundOnly(pathfind, paths_df, new_paths_df) ==
    [isNone |-> FALSE,
     rows   |-> {p \in paths_df.rows :
                    \A q \in new_paths_df.rows : q.trip_list_id_num # p.trip_list_id_num}
                  \cup {[q EXCEPT !.chosen = CHOSEN_NOT_CHOSEN_YET, !.missed_xfer = 0] :
                           q \in new_paths_df.rows}]

\* the retained pathsets without those of the requests searched anew, and
\* the new ones with chosen = not chosen yet and missed_xfer = 0
merge_pathsets(pathfind, paths_df, new_paths_df) ==
    [isNone |-> FALSE,
     rows   |-> {p \in paths_df.rows : p.trip_list_id_num \notin pathfind}
                  \cup {[q EXCEPT !.chosen = CHOSEN_NOT_CHOSEN_YET, !.missed_xfer = 0] :
                           q \in new_paths_df.rows}]

number_of_pathsets(paths_df) ==
    Cardinality({p.trip_list_id_num : p \in paths_df.rows})

\* the new pathsets when paths are found for the requests in found
NewPathsets(found) ==
    [isNone |-> FALSE,
     rows   |-> {PathsRow(r, CHOSEN_NOT_CHOSEN_YET) : r \in found}]

\* what Passenger.choose_paths can do with a row: with everyone the choice is
\* made anew; else a path is chosen where none is, and a chosen path that was
\* bumped or missed a transfer is rejected, with or without another path of
\* the pathset being chosen instead.  The chosen status of a choice is
\* iteration + simulation_iteration/100, kept here as the iteration.
ChoiceOutcomes(everyone, iter, p) ==
    IF everyone \/ p.chosen = CHOSEN_NOT_CHOSEN_YET
    THEN {[chosen |-> iter, new |-> TRUE]}
    ELSE IF p.chosen >= 0
    THEN {[chosen |-> p.chosen, new |-> FALSE],
          [chosen |-> CHOSEN_REJECTED, new |-> FALSE],
          [chosen |-> iter, new |-> TRUE]}
    ELSE {[chosen |-> p.chosen, new |-> FALSE]}

RECURSIVE choose_paths(_, _, _)
\* the results of Passenger.choose_paths: the rows and num_chosen
choose_paths(everyone, iter, rows) ==
    IF rows = {} THEN {[rows |-> {}, num_chosen |-> 0]}
    ELSE LET p == CHOOSE x \in rows : TRUE
         IN  {[rows       |-> rest.rows \cup {[p EXCEPT !.chosen = c.chosen]},
               num_chosen |-> rest.num_chosen + (IF c.new THEN 1 ELSE 0)] :
                 rest \in choose_paths(everyone, iter, rows \ {p}),
                 c \in ChoiceOutcomes(everyone, iter, p)}

\* the passengers with a chosen path
Arriving(rows) == Cardinality({p \in rows : p.chosen >= 0})

\* the other variables of the model stay as they are
OuterFrame == UNCHANGED <<simvars, msavars, cfgvars, ITERATION_FLAG, SIMULATION, PATHFINDING_READ_FILE>>
              /\ UNCHANGED <<NUMBER_OF_PROCESSES, est_paths_to_find, num_processes, todo_queue,
                             done_queue, process_dict, done_procs, pathdict,
                             num_paths_found_now, next_path, crash_report, gp_pc, worker_pc,
                             worker_todo, engine_bump_wait, completed_put>>

\* iteration 1 with pathfinding type 'file': the pathsets are read
ReadPathsets ==
    /\ ap_pc = "pathfind"
    /\ PATHFINDING_READ_FILE /\ iteration = 1
    /\ \E found \in SUBSET TripList :
          /\ new_pathset_paths_df' = NewPathsets(found)
          /\ num_paths_found' = number_of_pathsets(NewPathsets(found))
    /\ ap_pc' = "retain"
    /\ UNCHANGED <<iteration, PATHFINDING_EVERYONE, pathset_paths_df, pathfind_trip_list_df,
                   simulation_iteration, num_chosen, num_passengers_arrived>>
    /\ OuterFrame
    /\ UNCHANGED filevars
    /\ UNCHANGED extvars

\* generate_pathsets and setup_passenger_pathsets: the requests to search are
\* settled, PATHFINDING_EVERYONE is set, and the requests for which a path is
\* found get a new pathset
FindPathsets ==
    /\ ap_pc = "pathfind"
    /\ ~(PATHFINDING_READ_FILE /\ iteration = 1)
    /\ LET todo == PathfindTripList(iteration, TripList, pathset_paths_df)
       IN  /\ pathfind_trip_list_df' = todo
           /\ \E found \in SUBSET todo :
                 /\ new_pathset_paths_df' = NewPathsets(found)
                 /\ num_paths_found' = Cardinality(found)
    /\ PATHFINDING_EVERYONE' = PathfindingEveryoneAfter(iteration, PATHFINDING_EVERYONE)
    /\ ap_pc' = "retain"
    /\ UNCHANGED <<iteration, pathset_paths_df, simulation_iteration, num_chosen,
                   num_passengers_arrived>>
    /\ OuterFrame
    /\ UNCHANGED filevars
    /\ UNCHANGED extvars

\* the new pathsets replace the retained ones, or are merged into them
RetainPathsets ==
    /\ ap_pc = "retain"
    /\ IF PATHFINDING_EVERYONE
       THEN /\ pathset_paths_df' = new_pathset_paths_df
            /\ UNCHANGED num_paths_found
       ELSE LET merged == merge_pathsets(pathfind_trip_list_df, pathset_paths_df,
                                         new_pathset_paths_df)
            IN  /\ pathset_paths_df' = merged
                /\ num_paths_found' = number_of_pathsets(merged)
    /\ simulation_iteration' = 0
    /\ num_passengers_arrived' = 0
    /\ ap_pc' = IF SIMULATION THEN "simulate" ELSE "choose"
    /\ UNCHANGED <<iteration, PATHFINDING_EVERYONE, new_pathset_paths_df,
                   pathfind_trip_list_df, num_chosen>>
    /\ OuterFrame
    /\ UNCHANGED filevars
    /\ UNCHANGED extvars

\* one turn of the loop of simulate(): paths are chosen, the passengers are
\* loaded and bumped, and the loop ends without a new choice or past
\* MAX_SIMULATION_ITERS
SimulationIteration ==
    /\ ap_pc = "simulate"
    /\ \E out \in choose_paths(PATHFINDING_EVERYONE /\ simulation_iteration = 0, iteration,
                               pathset_paths_df.rows) :
          /\ pathset_paths_df' = [isNone |-> FALSE, rows |-> out.rows]
          /\ num_chosen' = out.num_chosen
          /\ num_passengers_arrived' = Arriving(out.rows)
          /\ ap_pc' = IF out.num_chosen <= 0 THEN "end"
                      ELSE IF simulation_iteration + 1 > MAX_SIMULATION_ITERS THEN "end"
                      ELSE "simulate"
    /\ simulation_iteration' = simulation_iteration + 1
    /\ UNCHANGED <<iteration, PATHFINDING_EVERYONE, new_pathset_paths_df,
                   pathfind_trip_list_df, num_paths_found>>
    /\ OuterFrame
    /\ UNCHANGED filevars
    /\ UNCHANGED extvars

\* choose_paths_without_simulation: a path is chosen for everyone
ChooseWithoutSimulation ==
    /\ ap_pc = "choose"
    /\ \E out \in choose_paths(TRUE, iteration, pathset_paths_df.rows) :
          /\ pathset_paths_df' = [isNone |-> FALSE, rows |-> out.rows]
          /\ num_passengers_arrived' = Arriving(out.rows)
    /\ ap_pc' = "end"
    /\ UNCHANGED <<iteration, PATHFINDING_EVERYONE, new_pathset_paths_df,
                   pathfind_trip_list_df, simulation_iteration, num_chosen, num_paths_found>>
    /\ OuterFrame
    /\ UNCHANGED filevars
    /\ UNCHANGED extvars

\* a variant that reports the share of the passengers who arrived
capacity_gap_Arrived(found, arrived) ==
    IF found > 0 THEN (100000 * arrived) \div found ELSE 100000

\* capacity_gap in 1/1000 percent (100 percent when no path was found)
capacity_gap(found, arrived) ==
    IF found > 0 THEN (100000 * (found - arrived)) \div found ELSE 100000

\* a loop that ends once the capacity gap is closed
ConvergenceBreak_Enabled(gap) == gap < 1

\* the test before the break of the outer loop: if False and capacity_gap < 0.001
ConvergenceBreak(gap) == FALSE /\ gap < 1

\* the end of the body of the outer loop: the vehicle loads are written, the
\* capacity gap is computed and logged, and the next iteration of range(1, ITERATION_FLAG+1) begins, or the
\* loop is over
EndIteration ==
    /\ ap_pc = "end"
    /\ veh_trips_csv' = write_vehicle_trips(veh_trips_csv, iteration, veh_trips_columns)
    /\ IF ConvergenceBreak(capacity_gap(num_paths_found, num_passengers_arrived))
       THEN iteration' = iteration /\ ap_pc' = "done"
       ELSE IF iteration < ITERATION_FLAG
       THEN iteration' = iteration + 1 /\ ap_pc' = "pathfind"
       ELSE iteration' = iteration /\ ap_pc' = "done"
    /\ UNCHANGED <<PATHFINDING_EVERYONE, pathset_paths_df, new_pathset_paths_df,
                   pathfind_trip_list_df, simulation_iteration, num_chosen, num_paths_found,
                   num_passengers_arrived, veh_trips_columns>>
    /\ OuterFrame
    /\ UNCHANGED extvars

InitOuter ==
    /\ PoolIdle
    /\ MsaIdle
    /\ CfgIdle
    /\ ExtIdle
    /\ veh_trips_columns = OptionalColumns
    /\ veh_trips_csv = write_vehicle_trips(<<>>, 0, veh_trips_columns)
    /\ ITERATION_FLAG \in 1..MaxIterationFlag
    /\ SIMULATION \in BOOLEAN
    /\ PATHFINDING_READ_FILE \in BOOLEAN
    /\ PATHFINDING_EVERYONE = TRUE
    /\ pathset_paths_df = [isNone |-> TRUE, rows |-> {}]
    /\ new_pathset_paths_df = [isNone |-> TRUE, rows |-> {}]
    /\ pathfind_trip_list_df = {}
    /\ simulation_iteration = 0
    /\ num_chosen = 0
    /\ num_paths_found = 0
    /\ num_passengers_arrived = 0
    /\ ap_pc = "pathfind"
    /\ pathset_links_df = <<>>
    /\ veh_trips_df = EmptyVehicles
    /\ bump_wait_df = [isNone |-> TRUE, rows |-> <<>>]
    /\ bump_iter = 0
    /\ chosen_paths_bumped = 0
    /\ new_bump_wait = <<>>
    /\ pc = "assign_paths"
    /\ CAPACITY_CONSTRAINT = TRUE
    /\ has_capacity_configured = TRUE
    /\ BUMP_ONE_AT_A_TIME = FALSE

NextOuter ==
    \/ ReadPathsets
    \/ FindPathsets
    \/ RetainPathsets
    \/ SimulationIteration
    \/ ChooseWithoutSimulation
    \/ EndIteration

SpecOuter == InitOuter /\ [][NextOuter]_vars

(***************************************************************************)
(* assign_paths from its first line: the vehicle load output               *)
(***************************************************************************)
\* write 0-iter vehicle trips: the initial load profile, iteration 0
WriteInitialLoad ==
    /\ ap_pc = "start"
    /\ veh_trips_csv' = write_vehicle_trips(veh_trips_csv, 0, veh_trips_columns)
    /\ ap_pc' = "pathfind"
    /\ UNCHANGED <<iteration, PATHFINDING_EVERYONE, pathset_paths_df, new_pathset_paths_df,
                   pathfind_trip_list_df, simulation_iteration, num_chosen, num_paths_found,
                   num_passengers_arrived, veh_trips_columns>>
    /\ OuterFrame
    /\ UNCHANGED extvars

\* veh_trips.csv as an earlier run with one iteration has left it
StaleVehTrips ==
    <<VehTripsBlock(0, OptionalColumns), VehTripsBlock(1, OptionalColumns)>>

\* assign_paths is called: the output directory is empty or holds the file
\* of an earlier run, and veh_trips_df has any of the optional columns
InitOutput ==
    /\ PoolIdle
    /\ MsaIdle
    /\ CfgIdle
    /\ ExtIdle
    /\ veh_trips_columns \in SUBSET OptionalColumns
    /\ veh_trips_csv \in {<<>>, StaleVehTrips}
    /\ ITERATION_FLAG \in 1..MaxIterationFlag
    /\ SIMULATION \in BOOLEAN
    /\ PATHFINDING_READ_FILE \in BOOLEAN
    /\ PATHFINDING_EVERYONE = TRUE
    /\ pathset_paths_df = [isNone |-> TRUE, rows |-> {}]
    /\ new_pathset_paths_df = [isNone |-> TRUE, rows |-> {}]
    /\ pathfind_trip_list_df = {}
    /\ simulation_iteration = 0
    /\ num_chosen = 0
    /\ num_paths_found = 0
    /\ num_passengers_arrived = 0
    /\ ap_pc = "start"
    /\ pathset_links_df = <<>>
    /\ veh_trips_df = EmptyVehicles
    /\ bump_wait_df = [isNone |-> TRUE, rows |-> <<>>]
    /\ bump_iter = 0
    /\ chosen_paths_bumped = 0
    /\ new_bump_wait = <<>>
    /\ pc = "assign_paths"
    /\ CAPACITY_CONSTRAINT = TRUE
    /\ has_capacity_configured = TRUE
    /\ BUMP_ONE_AT_A_TIME = FALSE

NextOutput ==
    \/ WriteInitialLoad
    \/ NextOuter

SpecOutput == InitOutput /\ [][NextOutput]_vars

(***************************************************************************)
(* merge_pathsets on pathsets with several paths, and their links          *)
(***************************************************************************)
\* a column that new_pathset_paths_df does not have yet
NoColumn == -9

\* a row of pathset_paths_df with its path number and missed_xfer
PathRow(id, pathnum, chosen, missed_xfer) ==
    [trip_list_id_num |-> id, pathnum |-> pathnum, chosen |-> chosen,
     missed_xfer |-> missed_xfer]

\* the retained paths of request r: none, one path in any state, or a chosen
\* path and one that is not chosen
RetainedPaths(r) ==
    {{}}
    \cup {{PathRow(r, 0, c, m)} : c \in {CHOSEN_REJECTED, CHOSEN_NOT_CHOSEN_YET, 1}, m \in {0, 1}}
    \cup {{PathRow(r, 0, 1, 0), PathRow(r, 1, CHOSEN_NOT_CHOSEN_YET, m)} : m \in {0, 1}}

\* the new paths of request r: none for a request that was not searched; none,
\* one or two for one that was
FoundPaths(r, pathfind) ==
    IF r \in pathfind
    THEN {{}, {PathRow(r, 0, NoColumn, NoColumn)},
          {PathRow(r, 0, NoColumn, NoColumn), PathRow(r, 1, NoColumn, NoColumn)}}
    ELSE {{}}

RECURSIVE RetainedPathsets(_)
RetainedPathsets(n) ==
    IF n = 0 THEN {{}}
    ELSE {rows \cup paths : rows \in RetainedPathsets(n - 1), paths \in RetainedPaths(n)}

RECURSIVE FoundPathsets(_, _)
FoundPathsets(n, pathfind) ==
    IF n = 0 THEN {{}}
    ELSE {rows \cup paths : rows \in FoundPathsets(n - 1, pathfind),
                            paths \in FoundPaths(n, pathfind)}

\* the rows come in (trip_list_id_num, pathnum) order
PathRowBefore(a, b) ==
    \/ a.trip_list_id_num < b.trip_list_id_num
    \/ a.trip_list_id_num = b.trip_list_id_num /\ a.pathnum < b.pathnum

RECURSIVE LinksOfPaths(_)
\* the links of the paths in rows: each path rides trip 1 from its first
\* stop to its last and has the chosen status of its path
LinksOfPaths(rows) ==
    IF rows = {} THEN <<>>
    ELSE LET p == CHOOSE x \in rows : \A y \in rows \ {x} : PathRowBefore(x, y)
         IN  <<[NewLink(p.trip_list_id_num, <<1, 1, 3>>, 1, 0)
                   EXCEPT !.pathnum = p.pathnum, !.chosen = p.chosen]>>
                 \o LinksOfPaths(rows \ {p})

\* the links of the requests that were searched are filtered out and
\* new_pathset_links_df is appended
merge_pathset_links(pathfind, links, new_links) ==
    SelectSeq(links, LAMBDA l : l.trip_list_id_num \notin pathfind) \o new_links

\* merge_pathsets as assign_paths calls it, and number_of_pathsets after it
MergePathsets ==
    /\ ap_pc = "merge"
    /\ LET merged == merge_pathsets(pathfind_trip_list_df, pathset_paths_df,
                                    new_pathset_paths_df)
       IN  /\ pathset_paths_df' = merged
           /\ num_paths_found' = number_of_pathsets(merged)
    /\ pathset_links_df' = merge_pathset_links(pathfind_trip_list_df, pathset_links_df,
                                               LinksOfPaths(new_pathset_paths_df.rows))
    /\ ap_pc' = IF SIMULATION THEN "simulate" ELSE "choose"
    /\ UNCHANGED <<veh_trips_df, bump_wait_df, bump_iter, chosen_paths_bumped, new_bump_wait,
                   pc, CAPACITY_CONSTRAINT, BUMP_ONE_AT_A_TIME, has_capacity_configured>>
    /\ UNCHANGED <<ITERATION_FLAG, SIMULATION, PATHFINDING_READ_FILE, PATHFINDING_EVERYONE,
                   new_pathset_paths_df, pathfind_trip_list_df, simulation_iteration,
                   num_chosen, num_passengers_arrived>>
    /\ UNCHANGED poolvars
    /\ UNCHANGED msavars
    /\ UNCHANGED cfgvars
    /\ UNCHANGED filevars
    /\ UNCHANGED extvars

\* outer iteration 2 after generate_pathsets: any retained pathsets, any
\* requests searched, and new paths for some of them
InitMerge ==
    /\ MsaIdle
    /\ CfgIdle
    /\ FileIdle
    /\ ExtIdle
    /\ iteration = 2
    /\ NUMBER_OF_PROCESSES = 1
    /\ est_paths_to_find = 0
    /\ num_processes = 0
    /\ todo_queue = <<>>
    /\ done_queue = <<>>
    /\ process_dict = <<>>
    /\ done_procs = 0
    /\ pathdict = <<>>
    /\ num_paths_found_now = 0
    /\ next_path = 1
    /\ crash_report = <<>>
    /\ gp_pc = "idle"
    /\ worker_pc = <<>>
    /\ worker_todo = <<>>
    /\ engine_bump_wait = [e \in 0..MaxProcesses |-> <<>>]
    /\ completed_put = <<>>
    /\ pathfind_trip_list_df \in SUBSET TripList
    /\ \E rows \in RetainedPathsets(NumTripList) :
          /\ pathset_paths_df = [isNone |-> FALSE, rows |-> rows]
          /\ pathset_links_df = LinksOfPaths(rows)
    /\ \E rows \in FoundPathsets(NumTripList, pathfind_trip_list_df) :
          /\ new_pathset_paths_df = [isNone |-> FALSE, rows |-> rows]
          /\ num_paths_found = Cardinality({p.trip_list_id_num : p \in rows})
    /\ veh_trips_df = EmptyVehicles
    /\ bump_wait_df = [isNone |-> TRUE, rows |-> <<>>]
    /\ bump_iter = 0
    /\ chosen_paths_bumped = 0
    /\ new_bump_wait = <<>>
    /\ pc = "assign_paths"
    /\ CAPACITY_CONSTRAINT = TRUE
    /\ has_capacity_configured = TRUE
    /\ BUMP_ONE_AT_A_TIME = FALSE
    /\ ITERATION_FLAG = 2
    /\ SIMULATION \in BOOLEAN
    /\ PATHFINDING_READ_FILE = FALSE
    /\ PATHFINDING_EVERYONE = FALSE
    /\ simulation_iteration = 0
    /\ num_chosen = 0
    /\ num_passengers_arrived = 0
    /\ ap_pc = "merge"

NextMerge == MergePathsets

SpecMerge == InitMerge /\ [][NextMerge]_vars

(***************************************************************************)
(* The simulation iterations of one outer iteration, with the MSA columns. *)
(* Every request has one path in its pathset, so a bumped passenger has    *)
(* no other path to choose.                                                *)
(***************************************************************************)
\* Passenger.choose_paths at a later simulation iteration: the chosen paths
\* that were bumped are rejected
RejectBumped(links) ==
    [i \in DOMAIN links |->
        IF links[i].chosen >= 0 /\ links[i].bump_iter >= 0
        THEN [links[i] EXCEPT !.chosen = CHOSEN_REJECTED]
        ELSE links[i]]

\* the end of the body of the loop of simulate() and the steps 1 to 4 of the
\* next simulation iteration
NextSimulationIteration ==
    /\ pc = "done"
    /\ num_chosen > 0
    /\ simulation_iteration + 1 <= MAX_SIMULATION_ITERS
    /\ simulation_iteration' = simulation_iteration + 1
    /\ pathset_links_df' = RejectBumped(pathset_links_df)
    /\ num_chosen' = 0
    /\ bump_iter' = 0
    /\ pc' = "load"
    /\ UNCHANGED <<veh_trips_df, bump_wait_df, chosen_paths_bumped, new_bump_wait,
                   CAPACITY_CONSTRAINT, BUMP_ONE_AT_A_TIME, has_capacity_configured>>
    /\ UNCHANGED <<ITERATION_FLAG, SIMULATION, PATHFINDING_READ_FILE, PATHFINDING_EVERYONE,
                   pathset_paths_df, new_pathset_paths_df, pathfind_trip_list_df,
                   num_paths_found, num_passengers_arrived, ap_pc>>
    /\ UNCHANGED poolvars
    /\ UNCHANGED msavars
    /\ UNCHANGED cfgvars
    /\ UNCHANGED filevars
    /\ UNCHANGED extvars

\* the loop of simulate() ends: no path was chosen, or MAX_SIMULATION_ITERS
\* is passed
EndSimulation ==
    /\ pc = "done"
    /\ num_chosen <= 0 \/ simulation_iteration + 1 > MAX_SIMULATION_ITERS
    /\ simulation_iteration' = simulation_iteration + 1
    /\ pc' = "returned"
    /\ UNCHANGED <<pathset_links_df, veh_trips_df, bump_wait_df, bump_iter,
                   chosen_paths_bumped, new_bump_wait, CAPACITY_CONSTRAINT,
                   BUMP_ONE_AT_A_TIME, has_capacity_configured>>
    /\ UNCHANGED <<ITERATION_FLAG, SIMULATION, PATHFINDING_READ_FILE, PATHFINDING_EVERYONE,
                   pathset_paths_df, new_pathset_paths_df, pathfind_trip_list_df, num_chosen,
                   num_paths_found, num_passengers_arrived, ap_pc>>
    /\ UNCHANGED poolvars
    /\ UNCHANGED msavars
    /\ UNCHANGED cfgvars
    /\ UNCHANGED filevars
    /\ UNCHANGED extvars

\* the loads an earlier outer iteration can leave: some requests ride, and
\* no vehicle is over its capacity
PrevLoads ==
    {veh \in {LoadedVehicles(links, EmptyVehicles) :
                 links \in UNION {PathsetChoices(k, WaitRides) : k \in 0..NumPaxWait}} :
        \A ts \in TripStops : veh[ts[1]][ts[2]].onboard <= Capacity(ts[1])}

\* simulate() of outer iteration `iteration` is at its first load: the paths
\* are chosen, and the vehicles carry the loads and the MSA columns of the
\* iteration before
InitMSA ==
    /\ CfgIdle
    /\ FileIdle
    /\ ExtIdle
    /\ iteration \in 1..MaxIteration
    /\ \E prev \in (IF iteration = 1 THEN {EmptyVehicles} ELSE PrevLoads) :
          /\ veh_trips_df = prev
          /\ veh_msa = MsaVehicles(1, prev, ZeroMsa)
          /\ veh_msa_prev = MsaVehicles(1, prev, ZeroMsa)
    /\ pathset_links_df \in PathsetChoices(NumPaxWait, WaitRides)
    /\ num_chosen \in (IF iteration % 2 = 1 THEN {NumPaxWait} ELSE 1..NumPaxWait)
    /\ PATHFINDING_EVERYONE = (iteration % 2 = 1)
    /\ simulation_iteration = 0
    /\ bump_wait_df = [isNone |-> TRUE, rows |-> <<>>]
    /\ bump_iter = 0
    /\ chosen_paths_bumped = 0
    /\ new_bump_wait = <<>>
    /\ pc = "load"
    /\ CAPACITY_CONSTRAINT = TRUE
    /\ has_capacity_configured = TRUE
    /\ BUMP_ONE_AT_A_TIME = FALSE
    /\ ITERATION_FLAG = MaxIteration
    /\ SIMULATION = TRUE
    /\ PATHFINDING_READ_FILE = FALSE
    /\ pathset_paths_df = [isNone |-> TRUE, rows |-> {}]
    /\ new_pathset_paths_df = [isNone |-> TRUE, rows |-> {}]
    /\ pathfind_trip_list_df = {}
    /\ num_paths_found = 0
    /\ num_passengers_arrived = 0
    /\ ap_pc = "simulate"
    /\ NUMBER_OF_PROCESSES = 1
    /\ est_paths_to_find = 0
    /\ num_processes = 0
    /\ todo_queue = <<>>
    /\ done_queue = <<>>
    /\ process_dict = <<>>
    /\ done_procs = 0
    /\ pathdict = <<>>
    /\ num_paths_found_now = 0
    /\ next_path = 1
    /\ crash_report = <<>>
    /\ gp_pc = "idle"
    /\ worker_pc = <<>>
    /\ worker_todo = <<>>
    /\ engine_bump_wait = [e \in 0..MaxProcesses |-> <<>>]
    /\ completed_put = <<>>

NextMSA ==
    \/ PutPassengersOnVehicles
    \/ FlagBumpNothing
    \/ FlagBumpOvercap
    \/ NextSimulationIteration
    \/ EndSimulation

SpecMSA == InitMSA /\ [][NextMSA]_vars

(***************************************************************************)
(* simulate() on pathsets with paths that are not chosen: every request    *)
(* has a chosen path and may have another path that is not chosen yet      *)
(***************************************************************************)
\* number of requests in the model of the simulation iterations
NumPaxHedge == 2

\* the chosen path of request p: one trip link found at pathfinding time 1 or
\* 2, or trip 1 from stop 10 to stop 20 and then trip 2 from stop 20 to 30
HedgeChosenPaths(p) ==
    {<<NewLink(p, ride, pf, 0)>> : ride \in LoadRides, pf \in {1, 2}}
        \cup {<<NewLink(p, <<1, 1, 2>>, 1, 0),
                [NewLink(p, <<2, 1, 2>>, 1, 0) EXCEPT !.linknum = 3]>>}

\* the other path of the pathset of request p, not chosen yet: none, or one
\* that boards at the first stop of a trip
HedgeOtherPaths(p) ==
    {<<>>} \cup
    {<<[NewLink(p, ride, 1, 0) EXCEPT !.pathnum = 1, !.chosen = CHOSEN_NOT_CHOSEN_YET]>> :
        ride \in WaitRides}

RECURSIVE HedgePathsets(_)
\* all pathset_links_df of n requests
HedgePathsets(n) ==
    IF n = 0 THEN {<<>>}
    ELSE {links \o path \o other : links \in HedgePathsets(n - 1),
                                   path \in HedgeChosenPaths(n),
                                   other \in HedgeOtherPaths(n)}

\* the paths Passenger.choose_paths may choose after the bumped chosen paths
\* are rejected: those not chosen yet of the requests without a chosen path
Choosable(links) ==
    {PathOf(links[i]) : i \in {k \in DOMAIN links :
        /\ links[k].chosen = CHOSEN_NOT_CHOSEN_YET
        /\ \A j \in DOMAIN links :
              links[j].trip_list_id_num = links[k].trip_list_id_num => links[j].chosen < 0}}

\* the links with the paths in S chosen in outer iteration iter
ChoosePaths(links, S, iter) ==
    [i \in DOMAIN links |->
        IF PathOf(links[i]) \in S THEN [links[i] EXCEPT !.chosen = iter] ELSE links[i]]

\* the end of the body of the loop of simulate() and the steps 1 to 4 of the
\* next simulation iteration: the bumped chosen paths are rejected and a path
\* may be chosen for a request that is left without one
ChooseAgain ==
    /\ pc = "done"
    /\ num_chosen > 0
    /\ simulation_iteration + 1 <= MAX_SIMULATION_ITERS
    /\ simulation_iteration' = simulation_iteration + 1
    /\ \E S \in SUBSET Choosable(RejectBumped(pathset_links_df)) :
          /\ pathset_links_df' = ChoosePaths(RejectBumped(pathset_links_df), S, iteration)
          /\ num_chosen' = Cardinality(S)
    /\ bump_iter' = 0
    /\ pc' = "load"
    /\ UNCHANGED <<veh_trips_df, bump_wait_df, chosen_paths_bumped, new_bump_wait,
                   CAPACITY_CONSTRAINT, BUMP_ONE_AT_A_TIME, has_capacity_configured>>
    /\ UNCHANGED <<ITERATION_FLAG, SIMULATION, PATHFINDING_READ_FILE, PATHFINDING_EVERYONE,
                   pathset_paths_df, new_pathset_paths_df, pathfind_trip_list_df,
                   num_paths_found, num_passengers_arrived, ap_pc>>
    /\ UNCHANGED poolvars
    /\ UNCHANGED msavars
    /\ UNCHANGED cfgvars
    /\ UNCHANGED filevars
    /\ UNCHANGED extvars

\* simulate() of outer iteration 1 at its first load
InitHedge ==
    /\ PoolIdle
    /\ MsaIdle
    /\ CfgIdle
    /\ FileIdle
    /\ ExtIdle
    /\ pathset_links_df \in HedgePathsets(NumPaxHedge)
    /\ veh_trips_df = EmptyVehicles
    /\ bump_wait_df = [isNone |-> TRUE, rows |-> <<>>]
    /\ bump_iter = 0
    /\ chosen_paths_bumped = 0
    /\ new_bump_wait = <<>>
    /\ pc = "load"
    /\ CAPACITY_CONSTRAINT = TRUE
    /\ has_capacity_configured = TRUE
    /\ BUMP_ONE_AT_A_TIME \in BOOLEAN
    /\ ITERATION_FLAG = 1
    /\ SIMULATION = TRUE
    /\ PATHFINDING_READ_FILE = FALSE
    /\ PATHFINDING_EVERYONE = TRUE
    /\ pathset_paths_df = [isNone |-> TRUE, rows |-> {}]
    /\ new_pathset_paths_df = [isNone |-> TRUE, rows |-> {}]
    /\ pathfind_trip_list_df = {}
    /\ simulation_iteration = 0
    /\ num_chosen = NumPaxHedge
    /\ num_paths_found = 0
    /\ num_passengers_arrived = 0
    /\ ap_pc = "simulate"

NextHedge ==
    \/ PutPassengersOnVehicles
    \/ FlagBumpNothing
    \/ FlagBumpOvercap
    \/ ChooseAgain
    \/ EndSimulation

SpecHedge == InitHedge /\ [][NextHedge]_vars

(***************************************************************************)
(* flag_missed_transfers.  Here pathset_links_df holds every link of a     *)
(* path (access, trip, transfer, egress).  A time column is a set: {} is   *)
(* NaT (a null), {t} is the time t in minutes; a difference or a sum with  *)
(* a null is a null and a comparison with a null is false, as in pandas.   *)
(***************************************************************************)
\* realized waits are drawn from -MaxWait..MaxWait
MaxWait == 1
\* number of paths of the pathsets that are flagged
NumXferPaths == 2
\* numpy.timedelta64(24, 'h'), in minutes
MinutesPerDay == 1440
\* 22*60: a delay beyond it means the vehicle time is of the next day
MidnightDelay == 1320

TimeDiff(a, b) == {x - y : x \in a, y \in b}
TimeSum(a, b) == {x + y : x \in a, y \in b}
TimeGreater(a, n) == \E x \in a : x > n

\* alight_time - pf_B_time on the links with a trip id, 0.0 on the others
alight_delay_min(l) ==
    IF l.trip_id_num # {} THEN TimeDiff(l.alight_time, l.pf_B_time) ELSE {0}

\* board and alight times of the next day are backed up by a day
BackADay(l) ==
    IF TimeGreater(alight_delay_min(l), MidnightDelay)
    THEN [l EXCEPT !.board_time = TimeDiff(@, {MinutesPerDay}),
                   !.alight_time = TimeDiff(@, {MinutesPerDay})]
    ELSE l

\* the rows the left merge on (trip_list_id_num, pathnum, linknum + 1) matches
PrevLinks(links, i) ==
    {j \in DOMAIN links : /\ PathOf(links[j]) = PathOf(links[i])
                          /\ links[j].linknum + 1 = links[i].linknum}

\* new_A_time and new_B_time before the trip links get their A time
FirstTimes(links, i) ==
    LET l == links[i]
        A == UNION {links[j].alight_time : j \in PrevLinks(links, i)}
    IN  [A |-> IF l.linkmode = "access" THEN l.pf_A_time ELSE A,
         B |-> IF l.linkmode = "trip" THEN l.alight_time
               ELSE IF l.linkmode = "access" THEN l.pf_B_time
               ELSE TimeSum(A, l.pf_linktime)]

\* a variant that leaves a trip link at its pathfinding A time
new_A_time_Planned(links, i) ==
    IF links[i].linkmode = "trip"
    THEN links[i].pf_A_time
    ELSE FirstTimes(links, i).A

\* new_A_time: a trip link's is the previous link's new_B_time
new_A_time(links, i) ==
    IF links[i].linkmode = "trip"
    THEN UNION {FirstTimes(links, j).B : j \in PrevLinks(links, i)}
    ELSE FirstTimes(links, i).A

\* new_B_time, backed up by a day when the link time is beyond 22 hours
new_B_time(links, i) ==
    LET B == FirstTimes(links, i).B
    IN  IF TimeGreater(TimeDiff(B, new_A_time(links, i)), MidnightDelay)
        THEN TimeDiff(B, {MinutesPerDay})
        ELSE B

\* new_waittime: board_time - new_A_time on the links with a trip id
new_waittime(links, i) ==
    IF links[i].trip_id_num # {}
    THEN TimeDiff(links[i].board_time, new_A_time(links, i))
    ELSE {}

\* a variant that takes a wait of zero for a missed transfer too
IsMissedXfer_ZeroWait(waittime) == \E x \in waittime : x <= 0

\* new_waittime < numpy.timedelta64(0, 'm')
IsMissedXfer(waittime) == \E x \in waittime : x < 0

\* the links as flag_missed_transfers returns them
FlaggedLinks(links) ==
    LET backed == [i \in DOMAIN links |-> BackADay(links[i])]
    IN  [i \in DOMAIN links |->
            [trip_list_id_num |-> backed[i].trip_list_id_num,
             pathnum          |-> backed[i].pathnum,
             linknum          |-> backed[i].linknum,
             linkmode         |-> backed[i].linkmode,
             trip_id_num      |-> backed[i].trip_id_num,
             pf_A_time        |-> backed[i].pf_A_time,
             pf_B_time        |-> backed[i].pf_B_time,
             pf_linktime      |-> backed[i].pf_linktime,
             board_time       |-> backed[i].board_time,
             alight_time      |-> backed[i].alight_time,
             alight_delay_min |-> alight_delay_min(backed[i]),
             new_A_time       |-> new_A_time(backed, i),
             new_B_time       |-> new_B_time(backed, i),
             new_linktime     |-> TimeDiff(new_B_time(backed, i), new_A_time(backed, i)),
             new_waittime     |-> new_waittime(backed, i),
             missed_xfer      |-> IF IsMissedXfer(new_waittime(backed, i)) THEN 1 ELSE 0]]

\* the sum of missed_xfer over the links of a path, set to 1 when it is > 0
PathMissedXfer(flagged, path) ==
    IF Cardinality({i \in DOMAIN flagged :
            PathOf(flagged[i]) = path /\ flagged[i].missed_xfer = 1}) > 0
    THEN 1 ELSE 0

\* pathset_paths_df with the missed_xfer column merged in
FlaggedPaths(paths_df, flagged) ==
    [isNone |-> paths_df.isNone,
     rows   |-> {[trip_list_id_num |-> r.trip_list_id_num,
                  pathnum          |-> r.pathnum,
                  missed_xfer      |-> PathMissedXfer(flagged, PathOf(r))] :
                    r \in paths_df.rows}]

FlagMissedTransfers ==
    /\ pc = "flag_missed_transfers"
    /\ pathset_links_df' = FlaggedLinks(pathset_links_df)
    /\ pathset_paths_df' = FlaggedPaths(pathset_paths_df, pathset_links_df')
    /\ pc' = "calculate_cost"
    /\ UNCHANGED <<veh_trips_df, bump_wait_df, bump_iter, chosen_paths_bumped, new_bump_wait,
                   CAPACITY_CONSTRAINT, BUMP_ONE_AT_A_TIME, has_capacity_configured>>
    /\ UNCHANGED <<ITERATION_FLAG, SIMULATION, PATHFINDING_READ_FILE, PATHFINDING_EVERYONE,
                   new_pathset_paths_df, pathfind_trip_list_df, simulation_iteration,
                   num_chosen, num_paths_found, num_passengers_arrived, ap_pc>>
    /\ UNCHANGED poolvars
    /\ UNCHANGED msavars
    /\ UNCHANGED cfgvars
    /\ UNCHANGED filevars
    /\ UNCHANGED extvars

\* a link of path k as pathfinding and find_passenger_vehicle_times leave it
XferLink(k, linknum, linkmode, pf_A, pf_B, board, alight) ==
    [trip_list_id_num |-> (k + 1) \div 2,
     pathnum          |-> (k + 1) % 2,
     linknum          |-> linknum,
     linkmode         |-> linkmode,
     trip_id_num      |-> IF linkmode = "trip" THEN {1} ELSE {},
     pf_A_time        |-> {pf_A},
     pf_B_time        |-> {pf_B},
     pf_linktime      |-> {pf_B - pf_A},
     board_time       |-> board,
     alight_time      |-> alight]

XferWaits == (0 - MaxWait)..MaxWait

\* path k: access, a trip and egress, the vehicle on the day or the day after;
\* or access, a trip, a transfer, a second trip and egress.  Pathfinding
\* planned to reach the first stop at 2 and the second at 5; the vehicles
\* come w1 and w2 minutes after the passenger does.
XferPaths(k) ==
    {<<XferLink(k, 1, "access", 0, 2, {}, {}),
       XferLink(k, 2, "trip", 2, 4, {2 + w1 + day}, {4 + w1 + day}),
       XferLink(k, 3, "egress", 4, 5, {}, {})>> :
         w1 \in XferWaits, day \in {0, MinutesPerDay}}
    \cup
    {<<XferLink(k, 1, "access", 0, 2, {}, {}),
       XferLink(k, 2, "trip", 2, 4, {2 + w1}, {4 + w1}),
       XferLink(k, 3, "transfer", 4, 5, {}, {}),
       XferLink(k, 4, "trip", 5, 7, {5 + w1 + w2}, {7 + w1 + w2}),
       XferLink(k, 5, "egress", 7, 8, {}, {})>> :
         w1 \in XferWaits, w2 \in XferWaits}

RECURSIVE XferPathsets(_)
\* all pathset_links_df of n paths
XferPathsets(n) ==
    IF n = 0 THEN {<<>>}
    ELSE {links \o path : links \in XferPathsets(n - 1), path \in XferPaths(n)}

\* simulate() after find_passenger_vehicle_times, before flag_missed_transfers
InitXfer ==
    /\ PoolIdle
    /\ MsaIdle
    /\ CfgIdle
    /\ FileIdle
    /\ ExtIdle
    /\ pathset_links_df \in XferPathsets(NumXferPaths)
    /\ pathset_paths_df =
           [isNone |-> FALSE,
            rows   |-> {[trip_list_id_num |-> pathset_links_df[i].trip_list_id_num,
                         pathnum          |-> pathset_links_df[i].pathnum] :
                           i \in DOMAIN pathset_links_df}]
    /\ veh_trips_df = EmptyVehicles
    /\ bump_wait_df = [isNone |-> TRUE, rows |-> <<>>]
    /\ bump_iter = 0
    /\ chosen_paths_bumped = 0
    /\ new_bump_wait = <<>>
    /\ pc = "flag_missed_transfers"
    /\ CAPACITY_CONSTRAINT = TRUE
    /\ has_capacity_configured = TRUE
    /\ BUMP_ONE_AT_A_TIME = FALSE
    /\ ITERATION_FLAG = 1
    /\ SIMULATION = TRUE
    /\ PATHFINDING_READ_FILE = FALSE
    /\ PATHFINDING_EVERYONE = TRUE
    /\ new_pathset_paths_df = [isNone |-> TRUE, rows |-> {}]
    /\ pathfind_trip_list_df = {}
    /\ simulation_iteration = 0
    /\ num_chosen = 0
    /\ num_paths_found = 0
    /\ num_passengers_arrived = 0
    /\ ap_pc = "idle"

NextXfer == FlagMissedTransfers

SpecXfer == InitXfer /\ [][NextXfer]_vars

(***************************************************************************)
(* read_configuration                                                      *)
(***************************************************************************)
PATHFINDING_TYPE_DETERMINISTIC == "deterministic"
PATHFINDING_TYPE_STOCHASTIC == "stochastic"
PATHFINDING_TYPE_READ_FILE == "file"

\* PathSet.OVERLAP_VARIABLE_OPTIONS
OVERLAP_VARIABLE_OPTIONS == {"count", "distance", "time"}

\* PathSet.CONFIGURED_FUNCTIONS: the functions of the function file
CONFIGURED_FUNCTIONS == {"generic_user_class"}

\* the options as the parser returns them: the defaults, and any value of the
\* four settings that are validated
ConfigFiles ==
    {[iterations          |-> 1,
      simulation          |-> TRUE,
      capacity_constraint |-> FALSE,
      number_of_processes |-> 0,
      bump_one_at_a_time  |-> FALSE,
      pathfinding_type    |-> pt,
      overlap_variable    |-> ov,
      user_class_function |-> uc,
      weights_file_exists |-> wf] :
        pt \in {PATHFINDING_TYPE_DETERMINISTIC, PATHFINDING_TYPE_STOCHASTIC,
                PATHFINDING_TYPE_READ_FILE, "bogus"},
        ov \in OVERLAP_VARIABLE_OPTIONS \cup {"bogus"},
        uc \in CONFIGURED_FUNCTIONS \cup {"bogus"},
        wf \in BOOLEAN}

\* how read_configuration ends on the options cfg; debug is __debug__ (False
\* under python -O, which compiles the assert statements away)
ReadOutcome(cfg, debug) ==
    IF debug /\ cfg.pathfinding_type \notin {PATHFINDING_TYPE_STOCHASTIC,
                                             PATHFINDING_TYPE_DETERMINISTIC,
                                             PATHFINDING_TYPE_READ_FILE}
    THEN "AssertionError"
    ELSE IF cfg.overlap_variable \notin OVERLAP_VARIABLE_OPTIONS THEN "ConfigurationError"
    ELSE IF cfg.user_class_function \notin CONFIGURED_FUNCTIONS THEN "ConfigurationError"
    ELSE IF ~cfg.weights_file_exists THEN "exit"
    ELSE "returned"

\* read_configuration: the class attributes are set from the options as they
\* are read, then the checks are made
ReadConfiguration ==
    /\ rc_pc = "start"
    /\ ITERATION_FLAG' = config.iterations
    /\ SIMULATION' = config.simulation
    /\ CAPACITY_CONSTRAINT' = config.capacity_constraint
    /\ NUMBER_OF_PROCESSES' = config.number_of_processes
    /\ BUMP_ONE_AT_A_TIME' = config.bump_one_at_a_time
    /\ PATHFINDING_READ_FILE' = (config.pathfinding_type = PATHFINDING_TYPE_READ_FILE)
    /\ rc_pc' = ReadOutcome(config, python_debug)
    /\ UNCHANGED <<config, python_debug>>
    /\ UNCHANGED <<pathset_links_df, veh_trips_df, bump_wait_df, bump_iter, chosen_paths_bumped,
                   new_bump_wait, pc, has_capacity_configured>>
    /\ UNCHANGED <<iteration, est_paths_to_find, num_processes, todo_queue, done_queue,
                   process_dict, done_procs, pathdict, num_paths_found_now, next_path,
                   crash_report, gp_pc, worker_pc, worker_todo, engine_bump_wait, completed_put>>
    /\ UNCHANGED <<PATHFINDING_EVERYONE, pathset_paths_df, new_pathset_paths_df,
                   pathfind_trip_list_df, simulation_iteration, num_chosen, num_paths_found,
                   num_passengers_arrived, ap_pc>>
    /\ UNCHANGED msavars
    /\ UNCHANGED filevars
    /\ UNCHANGED extvars

\* before read_configuration is called, on any configuration
InitConfig ==
    /\ PoolIdle
    /\ OuterIdle
    /\ MsaIdle
    /\ FileIdle
    /\ ExtIdle
    /\ config \in ConfigFiles
    /\ python_debug \in BOOLEAN
    /\ rc_pc = "start"
    /\ pathset_links_df = <<>>
    /\ veh_trips_df = EmptyVehicles
    /\ bump_wait_df = [isNone |-> TRUE, rows |-> <<>>]
    /\ bump_iter = 0
    /\ chosen_paths_bumped = 0
    /\ new_bump_wait = <<>>
    /\ pc = "read_configuration"
    /\ CAPACITY_CONSTRAINT = FALSE
    /\ has_capacity_configured = FALSE
    /\ BUMP_ONE_AT_A_TIME = FALSE

NextConfig == ReadConfiguration

SpecConfig == InitConfig /\ [][NextConfig]_vars

(***************************************************************************)
(* Properties of the capacity loop                                         *)
(***************************************************************************)
\* the capacity loop runs with capacities configured and capacity_constraint
Constrained == CAPACITY_CONSTRAINT /\ has_capacity_configured

\* the next step is a pass of flag_bump_overcap_passengers that bumps
Bumping ==
    /\ pc = "flag"
    /\ Constrained
    /\ \E ts \in TripStops :
          veh_trips_df[ts[1]][ts[2]].onboard > Capacity(ts[1])

\* the bump stops of the pass just made: the keys of its new_bump_wait
PassStops(nbw) == {<<nbw[k].trip_id_num, nbw[k].stop_sequence>> : k \in DOMAIN nbw}

\* the rows that were bump candidates of the pass at (trip, stop) ts
CandidatesAt(links, ts) ==
    {i \in DOMAIN links :
        /\ links[i].trip_id_num = ts[1] /\ links[i].A_seq = ts[2]
        /\ links[i].chosen >= 0 /\ links[i].bump_iter < 0}

\* the order the specification gives the candidates: realized A-time
\* ascending, trip ascending, stop sequence ascending, then pf_A_time and
\* request id descending
OrderBefore(a, b) ==
    LET ka == <<a.new_A_time, a.trip_id_num, a.A_seq, 0 - a.pf_A_time, 0 - a.trip_list_id_num>>
        kb == <<b.new_A_time, b.trip_id_num, b.A_seq, 0 - b.pf_A_time, 0 - b.trip_list_id_num>>
    IN  \E k \in 1..5 : ka[k] < kb[k] /\ \A m \in 1..(k - 1) : ka[m] = kb[m]

\* the number of candidates of ts that come before row i in that order
PlaceIn(links, ts, i) ==
    Cardinality({j \in CandidatesAt(links, ts) : OrderBefore(links[j], links[i])})

\* the surplus boardings of (trip, stop) ts are chosen paths bumped there, none
\* of them arriving later than a passenger who boarded there
SurplusBumped(links, veh, ts) ==
    LET bumped  == {i \in DOMAIN links :
                       /\ links[i].trip_id_num = ts[1] /\ links[i].A_seq = ts[2]
                       /\ links[i].chosen >= 0 /\ links[i].bump_iter >= 0}
        boarded == {i \in DOMAIN links :
                       /\ links[i].trip_id_num = ts[1] /\ links[i].A_seq = ts[2]
                       /\ links[i].chosen >= 0 /\ links[i].bump_iter < 0}
    IN  /\ Cardinality(bumped) >= veh[ts[1]][ts[2]].onboard - Capacity(ts[1])
        /\ \A i \in bumped : \A j \in boarded :
              links[i].new_A_time <= links[j].new_A_time

C3_LatestArrivalsBumped ==
    [][Bumping =>
         \A ts \in PassStops(new_bump_wait') :
         \A i, j \in CandidatesAt(pathset_links_df, ts) :
            (pathset_links_df'[i].bump_iter >= 0 /\ pathset_links_df'[j].bump_iter < 0)
                => pathset_links_df[i].new_A_time >= pathset_links_df[j].new_A_time]_vars

\* the chosen paths, and those of them that are not bumped
ChosenPaths(links) == {PathOf(links[i]) : i \in {k \in DOMAIN links : links[k].chosen >= 0}}
UnbumpedPaths(links) ==
    {PathOf(links[i]) : i \in {k \in DOMAIN links :
                                  links[k].chosen >= 0 /\ links[k].bump_iter < 0}}

\* C4: every pass that reports chosen_paths_bumped > 0 turns at least one
\* chosen unbumped path into a bumped one and is followed by a reload, a pass
\* that reports 0 ends the loop, and the passes made so far never exceed the
\* chosen paths bumped so far: the loop ends within (chosen paths + 1) passes
C4_LoopTerminates ==
    [][/\ (pc = "flag" /\ Constrained) =>
             /\ chosen_paths_bumped' > 0 =>
                   /\ Cardinality(UnbumpedPaths(pathset_links_df'))
                          < Cardinality(UnbumpedPaths(pathset_links_df))
                   /\ bump_iter' = bump_iter + 1 /\ pc' = "load"
             /\ chosen_paths_bumped' = 0 => pc' = "done"
       /\ (Constrained /\ pc' \in {"load", "flag", "done"}) =>
             bump_iter' + Cardinality(UnbumpedPaths(pathset_links_df'))
                 <= Cardinality(ChosenPaths(pathset_links_df'))]_vars

\* the loop has ended after three passes
C4_Witness ==
    pc = "done" /\ Constrained /\ bump_iter = 2 /\ chosen_paths_bumped = 0

\* the earliest time the registry stores for the key of row r, if any
StoredTimes(reg, r) ==
    {reg.rows[k].pf_A_time : k \in {m \in DOMAIN reg.rows :
        /\ reg.rows[m].trip_id_num = r.trip_id_num
        /\ reg.rows[m].stop_sequence = r.stop_sequence
        /\ reg.rows[m].stop_id_num = r.stop_id_num}}

\* C5: when a bump pass produces an A-time for a key that is already in the
\* registry, the registry afterwards holds the minimum of the stored and the
\* new time
C5_InsertOrMin ==
    [][Bumping =>
         \A k \in DOMAIN new_bump_wait' :
         \A old \in StoredTimes(bump_wait_df, new_bump_wait'[k]) :
            StoredTimes(bump_wait_df', new_bump_wait'[k])
                = {Min({old, new_bump_wait'[k].pf_A_time})}]_vars

\* C6: the time stored for a key of the registry never increases and the key
\* is never removed, whatever passes and iterations follow
C6_BumpWaitMonotone ==
    [][/\ ~bump_wait_df.isNone => ~bump_wait_df'.isNone
       /\ \A k \in DOMAIN bump_wait_df.rows :
             /\ StoredTimes(bump_wait_df', bump_wait_df.rows[k]) # {}
             /\ \A t \in StoredTimes(bump_wait_df', bump_wait_df.rows[k]) :
                   t <= bump_wait_df.rows[k].pf_A_time]_vars

\* a later pass has produced another time for a key the registry holds
C6_Witness ==
    \E k \in DOMAIN new_bump_wait :
        /\ StoredTimes(bump_wait_df, new_bump_wait[k]) # {}
        /\ new_bump_wait[k].pf_A_time \notin StoredTimes(bump_wait_df, new_bump_wait[k])

\* C7: the A-time a pass records for a key is the earliest arrival time (as
\* realized, or as found by pathfinding) among the passengers bumped at that
\* trip/stop in that pass
C7_EarliestBumpedArrival ==
    [][Bumping =>
         \A k \in DOMAIN new_bump_wait' :
            LET ts     == <<new_bump_wait'[k].trip_id_num, new_bump_wait'[k].stop_sequence>>
                bumped == {i \in CandidatesAt(pathset_links_df, ts) :
                              pathset_links_df'[i].bump_iter >= 0}
            IN  /\ bumped # {}
                /\ \/ new_bump_wait'[k].pf_A_time
                        = Min({pathset_links_df[i].new_A_time : i \in bumped})
                   \/ new_bump_wait'[k].pf_A_time
                        = Min({pathset_links_df[i].pf_A_time : i \in bumped})]_vars

(***************************************************************************)
(* Properties of the pathfinding pass                                      *)
(***************************************************************************)
\* C8: in a pathfinding pass of an iteration > 1, every search (by a worker
\* or in this process) is made on an extension that holds the current
\* registry
C8_BumpWaitLoaded ==
    [][iteration > 1 =>
          /\ \A w \in Workers :
                worker_pc[w] = "work" => engine_bump_wait[w] = RegistryRows(bump_wait_df)
          /\ (gp_pc = "tasks" /\ num_processes <= 1 /\ next_path' = next_path + 1)
                => engine_bump_wait[0] = RegistryRows(bump_wait_df)]_vars

\* C9: when generate_pathsets returns from a pass with workers, every
\* COMPLETED result a worker has put is stored on the pathset of its request
\* and counted in the number of paths found
C9_CompletedResultsStored ==
    (gp_pc = "returned" /\ num_processes > 1) =>
        /\ \A r \in DOMAIN completed_put :
              completed_put[r] # "none" => pathdict[r] = completed_put[r]
        /\ num_paths_found_now
              = Cardinality({r \in DOMAIN completed_put : completed_put[r] = "found"})

\* C10: at the end of a pass with workers a worker is reported as crashed
\* exactly when it stopped being alive without having sent DONE
C10_CrashedIffNoDone ==
    (gp_pc = "returned" /\ num_processes > 1) =>
        \A w \in Workers : (crash_report[w] # "none") <=> (worker_pc[w] = "crashed")

C12_PoolNeedsThreePerWorker ==
    (gp_pc \notin {"idle", "start"} /\ Workers # {}) =>
        est_paths_to_find >= 3 * Cardinality(Workers)

(***************************************************************************)
(* Properties of the outer iterations                                      *)
(***************************************************************************)

\* the requests with no path of chosen >= 0 in the retained pathsets
NotArrived ==
    {r \in TripList : ~ \E p \in pathset_paths_df.rows :
                           p.trip_list_id_num = r /\ p.chosen >= 0}

\* generate_pathsets has run in this iteration and the pathsets are not yet retained
Pathfound == ap_pc = "retain" /\ ~(PATHFINDING_READ_FILE /\ iteration = 1)

C14_EveryoneOnOddIterations ==
    (ap_pc \in {"retain", "simulate", "choose", "end"}) =>
        (PATHFINDING_EVERYONE <=> iteration % 2 = 1)

\* C15: within one outer iteration the body of the loop of simulate() is
\* executed at most MAX_SIMULATION_ITERS times
C15_AtMostMaxSimulationIters ==
    (ap_pc \in {"simulate", "end"}) => simulation_iteration <= MAX_SIMULATION_ITERS

C17_TerminatesWhenGapClosed ==
    [][(/\ ap_pc = "end" /\ iteration = 1
        /\ capacity_gap(num_paths_found, num_passengers_arrived) = 0)
          => ap_pc' # "pathfind"]_vars

(***************************************************************************)
(* Properties of the vehicle loads                                         *)
(***************************************************************************)
\* the boards, and the alights, of the stops of trip t in veh_trips_df
VehBoards(t) == [k \in 1..NumStops(t) |-> veh_trips_df[t][k].boards]
VehAlights(t) == [k \in 1..NumStops(t) |-> veh_trips_df[t][k].alights]

\* put_passengers_on_vehicles has loaded the vehicles from pathset_links_df
Loaded == pc = "flag"

\* C18: for every trip, onboard at sequence k is the sum over j <= k of
\* boards[j] - alights[j] of that trip only, and onboard >= 0 at every stop
C18_OnboardIsTripCumsum ==
    \A t \in Trips : \A s \in 1..NumStops(t) :
        /\ veh_trips_df[t][s].onboard =
               SumTo([k \in 1..NumStops(t) |-> VehBoards(t)[k] - VehAlights(t)[k]], s)
        /\ veh_trips_df[t][s].onboard >= 0

\* both trips carry passengers, and on trip 1 a passenger stays on board
\* past a stop where another one alights
C18_Witness ==
    /\ Loaded
    /\ \A t \in Trips : VehBoards(t)[1] > 0
    /\ VehAlights(1)[2] > 0 /\ veh_trips_df[1][2].onboard > 0

\* C19 as stated: the alights at the last stop of a trip equal the sum of the
\* boards over all its stops
C19_LastStopAlights ==
    Loaded => \A t \in Trips :
        VehAlights(t)[NumStops(t)] = SumTo(VehBoards(t), NumStops(t))

\* C19: the alights over all stops of a trip equal the boards over all its
\* stops; those at the last stop are the boards less the alights before it
C19_AlightsSumToBoards ==
    \A t \in Trips :
        /\ SumTo(VehAlights(t), NumStops(t)) = SumTo(VehBoards(t), NumStops(t))
        /\ VehAlights(t)[NumStops(t)] =
               SumTo(VehBoards(t), NumStops(t)) - SumTo(VehAlights(t), NumStops(t) - 1)

\* a passenger alights before the last stop of a loaded trip
C19_Witness ==
    /\ Loaded
    /\ \E t \in Trips : \E s \in 1..(NumStops(t) - 1) : VehAlights(t)[s] > 0

\* a link of a path that has been bumped, on whichever of its links
PathBumped(links, l) ==
    \E j \in DOMAIN links : PathOf(links[j]) = PathOf(l) /\ links[j].bump_iter # -1

\* the links of chosen paths never bumped that ride trip t
Unbumped(links, t) ==
    {i \in DOMAIN links :
        IsChosen(links[i]) /\ links[i].trip_id_num = t /\ ~PathBumped(links, links[i])}

\* C20: the boards at (trip, sequence) are the trip links of chosen paths with
\* bump_iter = -1 that board there, the alights those that alight there, and
\* a bumped path counts on none of the trips of its itinerary
C20_LoadCountsUnbumpedPaths ==
    Loaded => \A t \in Trips : \A s \in 1..NumStops(t) :
        /\ veh_trips_df[t][s].boards =
               Cardinality({i \in Unbumped(pathset_links_df, t) :
                               pathset_links_df[i].A_seq = s})
        /\ veh_trips_df[t][s].alights =
               Cardinality({i \in Unbumped(pathset_links_df, t) :
                               pathset_links_df[i].B_seq = s})

\* the vehicles are loaded again after a path of two trips was bumped from
\* one of them
C20_Witness ==
    /\ Loaded /\ bump_iter > 0
    /\ \E i, j \in DOMAIN pathset_links_df :
          /\ PathOf(pathset_links_df[i]) = PathOf(pathset_links_df[j])
          /\ pathset_links_df[i].trip_id_num # pathset_links_df[j].trip_id_num
          /\ pathset_links_df[i].bumpstop_boarded = 0
          /\ pathset_links_df[i].bump_iter # -1
          /\ <<pathset_links_df[i].trip_id_num, pathset_links_df[i].A_seq>> \in TripStops

(***************************************************************************)
(* Properties of the MSA columns                                           *)
(***************************************************************************)
\* C21: after outer iteration n the MSA boards and alights are
\* (1/n)*x_raw + (1 - 1/n)*x_prev, x_raw the boards (alights) of iteration n
\* and x_prev the MSA value iteration n-1 left, whatever the number of
\* simulation iterations and bump passes
C21_MsaOncePerIteration ==
    (pc = "returned") => \A t \in Trips : \A s \in 1..NumStops(t) :
        /\ veh_msa[t][s].boards =
               MsaAverage(iteration, veh_trips_df[t][s].boards, veh_msa_prev[t][s].boards)
        /\ veh_msa[t][s].alights =
               MsaAverage(iteration, veh_trips_df[t][s].alights, veh_msa_prev[t][s].alights)

(***************************************************************************)
(* Properties of the bump passes                                           *)
(***************************************************************************)
\* the first stop of each trip where the vehicle is over its capacity
FirstOverStops ==
    {ts \in TripStops :
        /\ veh_trips_df[ts[1]][ts[2]].onboard > Capacity(ts[1])
        /\ \A s \in 1..(ts[2] - 1) : veh_trips_df[ts[1]][s].onboard <= Capacity(ts[1])}

\* C22: the bump stops of a pass are the first over-capacity stop of each
\* trip that has one; with BUMP_ONE_AT_A_TIME only the one of them with the
\* earliest arrival time; and a chosen path is bumped in the pass only if it
\* boards at one of these stops
C22_BumpStops ==
    [][Bumping =>
         LET stops == PassStops(new_bump_wait')
         IN  /\ IF BUMP_ONE_AT_A_TIME
                THEN \E ts \in FirstOverStops :
                        /\ stops = {ts}
                        /\ \A y \in FirstOverStops :
                              ArrivalTime(ts[1], ts[2]) <= ArrivalTime(y[1], y[2])
                ELSE stops = FirstOverStops
             /\ \A i \in DOMAIN pathset_links_df :
                   (/\ pathset_links_df[i].chosen >= 0
                    /\ pathset_links_df[i].bump_iter < 0
                    /\ pathset_links_df'[i].bump_iter >= 0)
                     => \E j \in DOMAIN pathset_links_df :
                           /\ PathOf(pathset_links_df[j]) = PathOf(pathset_links_df[i])
                           /\ <<pathset_links_df[j].trip_id_num,
                                 pathset_links_df[j].A_seq>> \in stops]_vars

\* bumping one at a time, a pass has bumped at the first stop of trip 1 while
\* trip 2 was over capacity as well
C22_Witness ==
    /\ pc = "load" /\ bump_iter > 0 /\ BUMP_ONE_AT_A_TIME
    /\ PassStops(new_bump_wait) = {<<1, 1>>}
    /\ veh_trips_df[2][1].overcap > 0

\* C23: without capacities in the schedule, or with capacity_constraint off,
\* bump_iter of every link stays as it was, the registry is left unchanged,
\* and the vehicles are loaded once and not again
C23_NothingBumpedUnconstrained ==
    [][~Constrained =>
         /\ Len(pathset_links_df') = Len(pathset_links_df)
         /\ \A i \in DOMAIN pathset_links_df :
               pathset_links_df'[i].bump_iter = pathset_links_df[i].bump_iter
         /\ bump_wait_df' = bump_wait_df
         /\ bump_iter' = bump_iter
         /\ pc' # "load"]_vars

\* the loop is left with a vehicle over its capacity, capacity_constraint off
C23_Witness ==
    /\ pc = "done" /\ has_capacity_configured /\ ~CAPACITY_CONSTRAINT
    /\ bump_iter = 0
    /\ \E ts \in TripStops : veh_trips_df[ts[1]][ts[2]].overcap > 0

\* C28: when the capacity loop ends with capacities configured and
\* capacity_constraint on, no (trip, stop) has onboard > capacity, under both
\* settings of BUMP_ONE_AT_A_TIME
C28_NoOvercapAtExit ==
    (pc = "done" /\ Constrained) =>
        \A ts \in TripStops : veh_trips_df[ts[1]][ts[2]].onboard <= Capacity(ts[1])

\* bumping one at a time, the loop ends after a pass that bumped, with both
\* trips full
C28_Witness ==
    /\ pc = "done" /\ Constrained /\ BUMP_ONE_AT_A_TIME
    /\ bump_iter >= 1
    /\ \E i \in DOMAIN pathset_links_df : pathset_links_df[i].bump_iter >= 0
    /\ \A t \in Trips : veh_trips_df[t][1].onboard = Capacity(t)

\* C29: at the end of the capacity loop no link of a path that was bumped
\* carries bumpstop_boarded = 1 for the boarding it was bumped from (every
\* path has one trip link here)
C29_BumpedNotBoarded ==
    (pc = "done" /\ Constrained) =>
        \A i \in DOMAIN pathset_links_df :
            (pathset_links_df[i].chosen >= 0 /\ pathset_links_df[i].bump_iter >= 0)
                => pathset_links_df[i].bumpstop_boarded # 1

\* the vehicles are loaded again after a pass that bumped
Reloaded == pc = "flag" /\ bump_iter > 0 /\ Constrained

\* the chosen links bumped from their boarding at (trip, stop) ts in pass
BumpedAtStop(links, ts, pass) ==
    {i \in DOMAIN links :
        /\ links[i].trip_id_num = ts[1] /\ links[i].A_seq = ts[2]
        /\ links[i].chosen >= 0
        /\ links[i].bump_iter = pass /\ links[i].bumpstop_boarded = 0}

\* the chosen candidates bumped at ts in the last pass are as many as the
\* overcap the pass found there
BumpedIsOvercap(ts) ==
    Cardinality(BumpedAtStop(pathset_links_df, ts, bump_iter - 1))
        = veh_trips_df[ts[1]][ts[2]].overcap

\* C30 as stated: at every bump stop of a pass the chosen candidates bumped
\* are as many as the overcap, and the onboard count at that stop is the
\* capacity once the load is rebuilt
C30_OnboardEqualsCapacity ==
    Reloaded => \A ts \in PassStops(new_bump_wait) :
        /\ BumpedIsOvercap(ts)
        /\ veh_trips_df[ts[1]][ts[2]].onboard = Capacity(ts[1])

\* C30: at every bump stop of a pass the chosen candidates bumped are as many
\* as the overcap; with BUMP_ONE_AT_A_TIME the onboard count at that stop is
\* the capacity once the load is rebuilt, and without it the count is at
\* most the capacity
C30_BumpedEqualsOvercap ==
    Reloaded => \A ts \in PassStops(new_bump_wait) :
        /\ BumpedIsOvercap(ts)
        /\ veh_trips_df[ts[1]][ts[2]].onboard <= Capacity(ts[1])
        /\ BUMP_ONE_AT_A_TIME => veh_trips_df[ts[1]][ts[2]].onboard = Capacity(ts[1])

\* bumping one at a time, the load is rebuilt after a pass at a stop where a
\* passenger riding two trips was bumped
C30_Witness ==
    /\ Reloaded /\ BUMP_ONE_AT_A_TIME
    /\ \E ts \in PassStops(new_bump_wait) :
          /\ veh_trips_df[ts[1]][ts[2]].overcap > 0
          /\ \E i \in BumpedAtStop(pathset_links_df, ts, bump_iter - 1) :
             \E j \in DOMAIN pathset_links_df :
                /\ PathOf(pathset_links_df[j]) = PathOf(pathset_links_df[i])
                /\ pathset_links_df[j].trip_id_num # ts[1]

(***************************************************************************)
(* Properties of flag_missed_transfers                                     *)
(***************************************************************************)
\* flag_missed_transfers has returned
Flagged == pc = "calculate_cost"

\* the trip links of the pathsets
TripLinks == {i \in DOMAIN pathset_links_df : pathset_links_df[i].linkmode = "trip"}

\* board_time - new_A_time of link i, as the returned columns have them
RealizedWait(i) ==
    TimeDiff(pathset_links_df[i].board_time, pathset_links_df[i].new_A_time)

\* C24: a trip link is flagged missed_xfer = 1 exactly when its realized wait
\* (board time minus realized A time) is negative, a wait of exactly zero is
\* not a missed transfer, and a path is flagged missed_xfer = 1 exactly when
\* at least one of its links is flagged.
C24_MissedXfer ==
    Flagged =>
        /\ \A i \in TripLinks :
              /\ pathset_links_df[i].missed_xfer = 1 <=> (\E w \in RealizedWait(i) : w < 0)
              /\ RealizedWait(i) = {0} => pathset_links_df[i].missed_xfer = 0
        /\ \A r \in pathset_paths_df.rows :
              r.missed_xfer = 1 <=>
                  \E i \in DOMAIN pathset_links_df :
                      /\ PathOf(pathset_links_df[i]) = PathOf(r)
                      /\ pathset_links_df[i].missed_xfer = 1

\* a pathset with a path whose transfer is missed on its second trip and a
\* path whose vehicle comes at the minute the passenger does
C24_Witness ==
    /\ Flagged
    /\ \E i \in TripLinks :
          /\ pathset_links_df[i].linknum = 4
          /\ RealizedWait(i) = {-1}
          /\ pathset_links_df[i].missed_xfer = 1
    /\ \E i \in TripLinks :
          /\ RealizedWait(i) = {0}
          /\ pathset_links_df[i].missed_xfer = 0
    /\ \E r \in pathset_paths_df.rows : r.missed_xfer = 1
    /\ \E r \in pathset_paths_df.rows : r.missed_xfer = 0

(***************************************************************************)
(* Properties of the interrupted pathfinding pass                          *)
(***************************************************************************)
\* the driver is interrupted in this step
DriverInterrupted == Interrupt \/ InterruptInGet

\* C25: when the driver is interrupted (KeyboardInterrupt/SystemExit) during a
\* parallel pathfinding pass, it terminates every worker process and then
\* exits with code 2.
C25_InterruptTerminatesWorkers ==
    [][(DriverInterrupted /\ num_processes > 1) =>
           /\ gp_pc' = "exit"
           /\ \A w \in DOMAIN process_dict : worker_pc'[w] = "terminated"]_vars

(***************************************************************************)
(* Properties of read_configuration                                        *)
(***************************************************************************)
\* one of the four settings is invalid
InvalidConfiguration ==
    \/ config.pathfinding_type \notin {PATHFINDING_TYPE_STOCHASTIC,
                                       PATHFINDING_TYPE_DETERMINISTIC,
                                       PATHFINDING_TYPE_READ_FILE}
    \/ config.overlap_variable \notin OVERLAP_VARIABLE_OPTIONS
    \/ config.user_class_function \notin CONFIGURED_FUNCTIONS
    \/ ~config.weights_file_exists

\* C26: read_configuration reports an invalid pathfinding_type, an unknown
\* overlap variable, an unknown user-class function and a missing weights
\* file each as a ConfigurationError raised to the caller.
C26_ConfigurationErrors ==
    (rc_pc # "start" /\ InvalidConfiguration) => rc_pc = "ConfigurationError"

(***************************************************************************)
(* Properties of the capacity gap                                          *)
(***************************************************************************)
\* the body of the outer loop has reached the capacity gap
GapReported == ap_pc = "end"

\* the requests with a pathset, and those with a chosen path
Assigned == {p.trip_list_id_num : p \in pathset_paths_df.rows}
Arrived == {p.trip_list_id_num : p \in {q \in pathset_paths_df.rows : q.chosen >= 0}}

\* 100*(assigned - arrived)/assigned in 1/1000 percent
GapOf(assigned, arrived) == (100000 * (assigned - arrived)) \div assigned

\* C27: the capacity gap reported for an outer iteration equals
\* 100*(assigned - arrived)/assigned, where assigned is the number of requests
\* with a pathset and arrived the number returned by path choice, and it is
\* reported as 100 when assigned is 0.
C27_CapacityGap ==
    GapReported =>
        /\ num_passengers_arrived = Cardinality(Arrived)
        /\ capacity_gap(num_paths_found, num_passengers_arrived) =
              IF Cardinality(Assigned) = 0 THEN 100000
              ELSE GapOf(Cardinality(Assigned), Cardinality(Arrived))

\* an iteration in which one of two assigned passengers arrives
C27_Witness ==
    /\ GapReported
    /\ Cardinality(Assigned) = 2
    /\ Cardinality(Arrived) = 1
    /\ capacity_gap(num_paths_found, num_passengers_arrived) = 50000

(***************************************************************************)
(* Properties of the bump marks over the simulation iterations             *)
(***************************************************************************)
\* the paths with links[i].bump_iter < 0 that have bump_iter >= 0 afterwards
NewlyBumped(links, after) ==
    {PathOf(links[i]) : i \in {k \in DOMAIN links :
        links[k].bump_iter < 0 /\ after[k].bump_iter >= 0}}

\* the chosen paths among them
NewlyBumpedChosen(links, after) ==
    {PathOf(links[i]) : i \in {k \in DOMAIN links :
        links[k].bump_iter < 0 /\ after[k].bump_iter >= 0 /\ links[k].chosen >= 0}}

\* C31: bump candidates are only chosen paths that are not already bumped, a
\* bump marks all links of the path with the current bump-pass index, and
\* within one call of simulate() a path whose bump_iter is >= 0 never has its
\* bump_iter changed again nor returns to the unbumped state.
C31_BumpMarksAreFinal ==
    [][/\ DOMAIN pathset_links_df' = DOMAIN pathset_links_df
       /\ \A i \in DOMAIN pathset_links_df :
             LET l == pathset_links_df[i]
                 m == pathset_links_df'[i]
             IN  /\ l.bump_iter >= 0 => m.bump_iter = l.bump_iter
                 /\ m.bump_iter # l.bump_iter =>
                       /\ pc = "flag"
                       /\ m.bump_iter = bump_iter
                       /\ \A j \in DOMAIN pathset_links_df :
                             PathOf(pathset_links_df[j]) = PathOf(l) =>
                                 /\ pathset_links_df[j].bump_iter < 0
                                 /\ pathset_links_df'[j].bump_iter = bump_iter
       /\ pc = "flag" =>
             chosen_paths_bumped' =
                 Cardinality(NewlyBumpedChosen(pathset_links_df, pathset_links_df'))]_vars

\* in a later simulation iteration a chosen path is bumped in pass 0 while a
\* rejected path of two links keeps the mark of the simulation iteration
\* before on both links
C31_Witness ==
    /\ simulation_iteration >= 1
    /\ pc = "load"
    /\ bump_iter = 1
    /\ \E i \in DOMAIN pathset_links_df :
          pathset_links_df[i].bump_iter = 0 /\ pathset_links_df[i].chosen >= 0
    /\ \E i, j \in DOMAIN pathset_links_df :
          /\ i # j
          /\ PathOf(pathset_links_df[i]) = PathOf(pathset_links_df[j])
          /\ pathset_links_df[i].bump_iter >= 0
          /\ pathset_links_df[j].bump_iter = pathset_links_df[i].bump_iter
          /\ pathset_links_df[i].chosen = CHOSEN_REJECTED

\* the paths not chosen and not bumped that board at a stop in stops
UnchosenBoarding(links, stops) ==
    {PathOf(links[i]) : i \in {k \in DOMAIN links :
        /\ <<links[k].trip_id_num, links[k].A_seq>> \in stops
        /\ links[k].chosen < 0
        /\ links[k].bump_iter < 0}}

\* the paths that are not chosen
UnchosenPaths(links) ==
    {PathOf(links[i]) : i \in {k \in DOMAIN links : links[k].chosen < 0}}

\* C32: every unchosen, not yet bumped path that boards at a selected bump
\* stop is marked bumped in that pass as a hedge, and these paths are not
\* counted in chosen_paths_bumped: a pass that bumps only unchosen paths ends
\* the capacity loop.
C32_HedgeBumps ==
    [][Bumping =>
         LET hedge  == UnchosenBoarding(pathset_links_df, PassStops(new_bump_wait'))
             bumped == NewlyBumped(pathset_links_df, pathset_links_df')
         IN  /\ hedge \subseteq bumped
             /\ bumped \cap UnchosenPaths(pathset_links_df) = hedge
             /\ \A i \in DOMAIN pathset_links_df :
                   PathOf(pathset_links_df[i]) \in hedge =>
                       pathset_links_df'[i].bump_iter = bump_iter
             /\ chosen_paths_bumped' = Cardinality(bumped \ hedge)
             /\ (bumped \subseteq hedge) => pc' = "done"]_vars

\* a pass has bumped a chosen path and, as a hedge, a path that is not chosen,
\* and has counted one bumped path
C32_Witness ==
    /\ pc = "load"
    /\ bump_iter = 1
    /\ simulation_iteration = 0
    /\ chosen_paths_bumped = 1
    /\ \E i \in DOMAIN pathset_links_df :
          pathset_links_df[i].chosen >= 0 /\ pathset_links_df[i].bump_iter = 0
    /\ \E i \in DOMAIN pathset_links_df :
          /\ pathset_links_df[i].chosen = CHOSEN_NOT_CHOSEN_YET
          /\ pathset_links_df[i].bump_iter = 0

(***************************************************************************)
(* Properties of merge_pathsets                                            *)
(***************************************************************************)
\* the links of the requests outside of pathfind, in row order
LinksOfOthers(links, pathfind) ==
    SelectSeq(links, LAMBDA l : l.trip_list_id_num \notin pathfind)

\* the links of the requests in pathfind, in row order
LinksOfSearched(links, pathfind) ==
    SelectSeq(links, LAMBDA l : l.trip_list_id_num \in pathfind)

\* C33: merge_pathsets removes every retained path and link of the requests
\* that were just re-pathfound and appends their new paths with chosen =
\* not-chosen-yet (-1) and missed_xfer = 0, while the paths and links of every
\* other request, including their chosen status, are left unchanged.
C33_MergeFrame ==
    [][ap_pc = "merge" =>
         LET searched == pathfind_trip_list_df
             old      == pathset_paths_df.rows
             new      == new_pathset_paths_df.rows
             merged   == pathset_paths_df'.rows
         IN  /\ {p \in merged : p.trip_list_id_num \notin searched}
                    = {p \in old : p.trip_list_id_num \notin searched}
             /\ {p \in merged : p.trip_list_id_num \in searched}
                    = {PathRow(q.trip_list_id_num, q.pathnum, CHOSEN_NOT_CHOSEN_YET, 0) :
                           q \in new}
             /\ LinksOfOthers(pathset_links_df', searched)
                    = LinksOfOthers(pathset_links_df, searched)
             /\ LinksOfSearched(pathset_links_df', searched) = LinksOfPaths(new)]_vars

\* after a merge: request 1 was searched and has a new path that is not
\* chosen yet, while request 2 keeps its chosen path with a missed transfer,
\* and its link comes before the new link of request 1
C33_Witness ==
    /\ ap_pc \in {"simulate", "choose"}
    /\ iteration = 2
    /\ pathfind_trip_list_df = {1}
    /\ PathRow(1, 0, CHOSEN_NOT_CHOSEN_YET, 0) \in pathset_paths_df.rows
    /\ PathRow(2, 0, 1, 1) \in pathset_paths_df.rows
    /\ Len(pathset_links_df) = 2
    /\ pathset_links_df[1].trip_list_id_num = 2
    /\ pathset_links_df[1].chosen = 1
    /\ pathset_links_df[2].trip_list_id_num = 1
    /\ num_paths_found = 2

(***************************************************************************)
(* Properties of the work queue                                            *)
(***************************************************************************)
\* request r is on todo_queue
Queued(r) == \E i \in DOMAIN todo_queue : todo_queue[i] = TodoPathset(r)

\* request r was put on todo_queue and has been taken from it
Taken(r) == r < next_path /\ ~Queued(r)

\* worker w has consumed a 'DONE'
ConsumedDone(w) == w \in Workers /\ worker_pc[w] \in {"return", "exited"}

\* on todo_queue no request comes after a 'DONE', the requests are in the
\* order of the trip list without repetition, and once the 'DONE's are put
\* there is one for every worker that has not consumed one
TodoQueueInOrder ==
    /\ \A i, j \in DOMAIN todo_queue :
          i < j /\ todo_queue[i] = TodoDone => todo_queue[j] = TodoDone
    /\ \A i, j \in DOMAIN todo_queue :
          i < j /\ todo_queue[j] # TodoDone
             => todo_queue[i].trip_list_id_num < todo_queue[j].trip_list_id_num
    /\ gp_pc \in {"results", "alive", "join", "returned"} /\ num_processes > 1
          => Cardinality({i \in DOMAIN todo_queue : todo_queue[i] = TodoDone})
               + Cardinality({w \in Workers : ConsumedDone(w)}) = num_processes
    /\ gp_pc \in {"start", "tasks"}
          => \A i \in DOMAIN todo_queue : todo_queue[i] # TodoDone

\* a step that takes request r from todo_queue is the step of one worker, who
\* had not consumed a 'DONE', goes to work on r and puts STARTING for r
TakenByOne(r) ==
    Queued(r) /\ ~Queued(r)'
       => \E w \in Workers :
             /\ ~ConsumedDone(w)
             /\ worker_pc'[w] = "work"
             /\ worker_todo'[w] = r
             /\ done_queue' = Append(done_queue, Result(w, "STARTING", r, FALSE))
             /\ \A v \in Workers \ {w} :
                   worker_pc'[v] = worker_pc[v] /\ worker_todo'[v] = worker_todo[v]

\* worker w puts no EXCEPTION on done_queue
NoException(w) ==
    \A i \in DOMAIN done_queue :
       ~(done_queue[i].worker_num = w /\ done_queue[i].kind = "EXCEPTION")

\* worker w is one of the processes of the pass and has not died
NotDied(w) == gp_pc # "start" => w \in Workers /\ worker_pc[w] # "crashed"

\* the parts of C34 that do not depend on a worker staying up
QueueSafety ==
    /\ []TodoQueueInOrder
    /\ [][/\ \A w \in Workers : ConsumedDone(w) => ConsumedDone(w)'
          /\ \A r \in 1..NumQueued : Taken(r) => Taken(r)'
          /\ \A r \in 1..NumQueued : TakenByOne(r)]_vars

Receives(kind, w) ==
    /\ gp_pc = "results"
    /\ done_queue # <<>>
    /\ Head(done_queue).kind = kind
    /\ Head(done_queue).worker_num = w
    /\ gp_pc' = "alive"

\* working_on of worker w is set by the STARTING of w to its request, cleared
\* by the COMPLETED of w, and left alone by every other step
WorkingOnFollowsMessages ==
    \A w \in DOMAIN process_dict :
       /\ Receives("STARTING", w)
             => process_dict'[w].working_on = Head(done_queue).trip_list_id
       /\ Receives("COMPLETED", w) => process_dict'[w].working_on = 0
       /\ ~Receives("STARTING", w) /\ ~Receives("COMPLETED", w)
             => process_dict'[w].working_on = process_dict[w].working_on

\* C35: the driver's in-flight record of a worker (working_on) is set by that
\* worker's STARTING message and cleared by its next COMPLETED message, and a
\* crash report for a worker that died mid-request names that request (the
\* request the worker took last).
C35_InFlightRecord ==
    /\ [][WorkingOnFollowsMessages]_vars
    /\ [](gp_pc = "returned" /\ num_processes > 1 =>
             \A w \in Workers :
                worker_pc[w] = "crashed" =>
                   /\ crash_report[w] = "crashed working on"
                   /\ process_dict[w].working_on = worker_todo[w])

\* the link before link i on its path
LinkBefore(i) ==
    {j \in DOMAIN pathset_links_df :
        /\ PathOf(pathset_links_df[j]) = PathOf(pathset_links_df[i])
        /\ pathset_links_df[j].linknum + 1 = pathset_links_df[i].linknum}

Reordered(links, f) == [i \in DOMAIN links |-> links[f[i]]]

\* all orders of the rows of links
RowOrders(links) == Permutations(DOMAIN links)

\* the candidates of one bump stop are totally ordered by the sort key
KeyIsTotal(links, cands) ==
    \A i, j \in cands :
       i # j /\ SameBumpStop(links[i], links[j])
          => SortsBefore(links[i], links[j]) \/ SortsBefore(links[j], links[i])

\* C37: the set of paths bumped in a pass and the BumpWait value recorded are
\* a deterministic function of the set of candidates and the load profile,
\* independent of the row order of the input links: the sort key (realized
\* A-time, trip, sequence, pf_A_time, request id) totally orders the
\* candidates of a bump stop when each request has one chosen path.
C37_RowOrderIndependent ==
    [][Bumping =>
         LET veh   == WithOvercap(veh_trips_df)
             stops == PassStops(new_bump_wait')
         IN  \A f \in RowOrders(pathset_links_df) :
                LET links == MarkAtCapBoarded(Reordered(pathset_links_df, f), veh)
                    cands == bumpstop_boards(links, stops)
                IN  /\ KeyIsTotal(links, cands)
                    /\ AllBumpPaths(links, veh, stops)
                          = NewlyBumped(pathset_links_df, pathset_links_df')
                    /\ NewBumpWait(links, cands) = new_bump_wait']_vars

\* a pass has bumped request 2 and let request 1 board at the first stop of
\* trip 1, where both came at time 1 with the same pathfinding time: the
\* request id has decided
C37_Witness ==
    /\ bump_iter = 1
    /\ pc = "load"
    /\ \E i, j \in DOMAIN pathset_links_df :
          /\ pathset_links_df[i].trip_list_id_num = 1
          /\ pathset_links_df[j].trip_list_id_num = 2
          /\ SameBumpStop(pathset_links_df[i], pathset_links_df[j])
          /\ pathset_links_df[i].new_A_time = pathset_links_df[j].new_A_time
          /\ pathset_links_df[i].pf_A_time = pathset_links_df[j].pf_A_time
          /\ pathset_links_df[i].bump_iter = -1
          /\ pathset_links_df[i].bumpstop_boarded = 1
          /\ pathset_links_df[j].bump_iter = 0
          /\ new_bump_wait # <<>>

(***************************************************************************)
(* Properties of the vehicle load output                                   *)
(***************************************************************************)
\* the outer iterations whose body has been run to its end
CompletedIterations == IF ap_pc = "done" THEN iteration ELSE iteration - 1

\* C38: the vehicle load output receives the iteration-0 profile first
\* (overwriting the file) and then exactly one appended block per outer
\* iteration in increasing iteration order, so after N outer iterations it
\* holds blocks 0, 1, ..., N; the optional direction_id and capacity columns
\* are dropped only when the input lacks them.
C38_VehicleLoadOutput ==
    ap_pc # "start" =>
        /\ Len(veh_trips_csv) = CompletedIterations + 1
        /\ \A k \in DOMAIN veh_trips_csv :
              /\ veh_trips_csv[k].iteration = k - 1
              /\ \A i \in DOMAIN VehTripsColumns :
                    LET c == VehTripsColumns[i]
                    IN  (c \in Range(veh_trips_csv[k].columns))
                           <=> (c \in OptionalColumns => c \in veh_trips_columns)
        /\ ap_pc = "done" => Len(veh_trips_csv) = ITERATION_FLAG + 1

\* assign_paths is over after MaxIterationFlag iterations on vehicles with a
\* direction_id and without a capacity: the file holds as many blocks and one
\* more, with direction_id and without capacity
C38_Witness ==
    /\ ap_pc = "done"
    /\ ITERATION_FLAG = MaxIterationFlag
    /\ veh_trips_columns = {"direction_id"}
    /\ Len(veh_trips_csv) = MaxIterationFlag + 1
    /\ veh_trips_csv[1].iteration = 0
    /\ veh_trips_csv[MaxIterationFlag + 1].iteration = MaxIterationFlag
    /\ "direction_id" \in Range(veh_trips_csv[2].columns)
    /\ "capacity" \notin Range(veh_trips_csv[2].columns)

(***************************************************************************)
(* Properties of the MSA columns inside the capacity loop                  *)
(***************************************************************************)
\* C39: bump passes with bump_iter > 0 leave msa_boards and msa_alights
\* unchanged: within one simulation iteration only the first load
\* (bump_iter = 0) updates the MSA columns, and later loads recompute only
\* boards, alights and onboard.
C39_MsaOnFirstLoadOnly ==
    [][/\ bump_iter > 0 => veh_msa' = veh_msa
       /\ pc # "load" => veh_msa' = veh_msa
       /\ pc = "load" /\ bump_iter > 0
             => veh_trips_df' = LoadedVehicles(pathset_links_df, veh_trips_df)
       /\ pc = "load" /\ bump_iter = 0
             => veh_msa' = MsaVehicles(iteration,
                                      LoadedVehicles(pathset_links_df, veh_trips_df),
                                      veh_msa)]_vars

\* iteration 1 after the load of bump pass 1: one of the two passengers who
\* boarded trip 1 at its first stop was bumped, boards is 1 there and
\* msa_boards is still the 2 of the first load
C39_Witness ==
    /\ iteration = 1
    /\ simulation_iteration = 0
    /\ bump_iter = 1
    /\ pc = "flag"
    /\ veh_trips_df[1][1].boards = 1
    /\ veh_msa[1][1].boards = Rat(2, 1)

(***************************************************************************)
(* Properties of find_trip_based_pathset                                   *)
(***************************************************************************)
\* the link rows are grouped by ascending path_num
GroupedAscending(ints) ==
    \A i, j \in DOMAIN ints : i < j => ints[i].path_num <= ints[j].path_num

\* the rows of path p, in row order
RowsOfPath(ints, p) == SelectSeq(ints, LAMBDA row : row.path_num = p)

\* C40: find_trip_based_pathset creates one pathdict entry per row of the
\* returned path-cost matrix and attaches every returned link row to exactly
\* the path named by its path_num, in row order, when the link rows are
\* grouped by ascending path_num; mode codes -100, -101, -102 and -103 are
\* mapped to access, egress, transfer and generic transit and any other code
\* is kept as the transit mode id.
C40_PathdictFromRows ==
    ftp_pc = "returned" =>
        LET dict == pathdict[1]
        IN  /\ DOMAIN dict = 0..(Len(path_costs) - 1)
            /\ \A p \in DOMAIN dict : dict[p].cost = path_costs[p + 1][1]
            /\ GroupedAscending(ret_ints) =>
                  \A p \in DOMAIN dict :
                     LET rows == RowsOfPath(ret_ints, p)
                     IN  /\ Len(dict[p].states) = Len(rows)
                         /\ \A k \in DOMAIN rows :
                               LET st   == dict[p].states[k]
                                   code == rows[k].mode
                               IN  /\ st.stop_id = rows[k].stop_id
                                   /\ IF code = -100 THEN st.mode = STATE_MODE_ACCESS
                                      ELSE IF code = -101 THEN st.mode = STATE_MODE_EGRESS
                                      ELSE IF code = -102 THEN st.mode = STATE_MODE_TRANSFER
                                      ELSE IF code = -103 THEN st.mode = MODE_GENERIC_TRANSIT_NUM
                                      ELSE st.mode = code

\* two paths were returned with an access row for path 0 and then a trip row
\* and an egress row for path 1: path 0 has one state and path 1 has the two
\* others, with the supply mode kept
C40_Witness ==
    /\ ftp_pc = "returned"
    /\ Len(path_costs) = 2
    /\ Len(ret_ints) = 3
    /\ ret_ints[1].path_num = 0 /\ ret_ints[1].mode = CodeAccess
    /\ ret_ints[2].path_num = 1 /\ ret_ints[2].mode = SupplyModeNum
    /\ ret_ints[3].path_num = 1 /\ ret_ints[3].mode = CodeEgress
    /\ Len(pathdict[1][0].states) = 1
    /\ Len(pathdict[1][1].states) = 2
    /\ pathdict[1][1].states[1] = [stop_id |-> 2, mode |-> SupplyModeNum]
    /\ pathdict[1][1].states[2] = [stop_id |-> 3, mode |-> STATE_MODE_EGRESS]

====
